---- MODULE Spec2Model ----
(***************************************************************************)
(* Cafe menu backend (backend/server.py): OTP login for the single         *)
(* administrator, the signed session token, the authorization gate of the  *)
(* admin routes and the menu collection.                                   *)
(*                                                                         *)
(* Every request handler is a coroutine: it runs without interruption      *)
(* between two awaits and other requests may run while it waits for a      *)
(* store call.  A handler is therefore cut into one action per store call. *)
(* Time is counted in ticks, TicksPerSec ticks to the second, so that the  *)
(* whole-second "exp" claim of a token and the sub-second clock of         *)
(* datetime.now() are both represented.                                    *)
(***************************************************************************)
EXTENDS Integers, Sequences, FiniteSets, TLC

\* ------------------------------------------------------------------ bounds
NumProcs == 2          \* request handlers that can be in flight together
MaxTicks == 2          \* how many times the clock advances in one behaviour
TicksPerSec == 3       \* resolution of the clock below one second
MaxIds == 2            \* how many menu items are created in one behaviour
MenuTicks == 1         \* clock advances while the menu routes are exercised

Procs == 1..NumProcs

\* ------------------------------------------------------- program constants
ADMIN_EMAIL == "admin@cafe.com"
JWT_SECRET == "server-secret"
OTP_MINUTES == 10
JWT_DAYS == 7

OtpTtl == OTP_MINUTES * 60 * TicksPerSec     \* timedelta(minutes=10), in ticks
JwtTtlSec == JWT_DAYS * 24 * 3600            \* timedelta(days=7), in seconds
JwtTtl == JwtTtlSec * TicksPerSec            \* the same, in ticks

\* ------------------------------------------------------------ input values
OtherEmail == "invalid@example.com"
OtherSecret == "other-secret"
Emails == {ADMIN_EMAIL, OtherEmail}
\* generate_otp(): str(random.randint(100000, 999999)); the two ends of the range
OtpCodes == {"100000", "999999"}
\* what a client may type: a generated code or one that is never generated
SubmittedCodes == OtpCodes \cup {"000000"}
\* the amounts by which the clock advances between two steps: the life of a
\* challenge where challenges are followed; a fraction of a second and just
\* under the life of a token where tokens are followed
OtpClockSteps == {OtpTtl}
JwtClockSteps == {1, JwtTtl - 1}

VARIABLES
    otp_verifications,  \* db.otp_verifications, in natural (insertion) order
    menu_items,         \* db.menu_items, in natural (insertion) order
    now,                \* datetime.now(timezone.utc), in ticks
    ticks,              \* number of clock advances so far
    pc,                 \* pc[p]: where handler p stands
    req,                \* req[p]: the request handler p serves, with its locals
    resp,               \* resp[p]: the response of handler p
    mail,               \* the last message accepted by the email provider
    issued,             \* the last token returned by verify_otp, with its issue time
    next_id,            \* number of uuid4 values drawn so far
    last                \* the last event on the administrator's challenge

vars == <<otp_verifications, menu_items, now, ticks, pc, req, resp, mail,
          issued, next_id, last>>

\* --------------------------------------------------------------- responses
NoReq == [op |-> "none"]
NoMail == [to |-> "", otp |-> ""]
\* no Authorization header, and a bearer string that is no JWT
NoToken == [kind |-> "none"]
Garbled == [kind |-> "garbled"]
NoResp == [status |-> 0, detail |-> "", token |-> NoToken, body |-> <<>>]

HTTPException(status, detail) == [NoResp EXCEPT !.status = status, !.detail = detail]

Ok(detail) == [NoResp EXCEPT !.status = 200, !.detail = detail]

\* ----------------------------------------------------------- time encoding
\* datetime.isoformat() keeps the microseconds and the offset, so
\* fromisoformat gives back the same instant; the stored value is a string.
isoformat(t) == <<"iso", t>>

fromisoformat(s) == s[2]

\* ------------------------------------------------------------ store adapter
RECURSIVE FirstIndex(_, _, _)
\* index of the first document of coll, from position i on, with that email; 0 if none
FirstIndex(coll, email, i) ==
    IF i > Len(coll) THEN 0
    ELSE IF coll[i].email = email THEN i
    ELSE FirstIndex(coll, email, i + 1)

RemoveAt(coll, i) == [j \in 1..(Len(coll) - 1) |-> IF j < i THEN coll[j] ELSE coll[j + 1]]

\* collection.find_one({"email": email}): the first match in natural order, or <<>>
find_one_email(coll, email) ==
    LET i == FirstIndex(coll, email, 1)
    IN IF i = 0 THEN <<>> ELSE <<coll[i]>>

\* a delete_one that removes nothing
delete_one_email_keeps(coll, email) == coll

\* collection.delete_one({"email": email}): removes the first match, if any
delete_one_email(coll, email) ==
    LET i == FirstIndex(coll, email, 1)
    IN IF i = 0 THEN coll ELSE RemoveAt(coll, i)

\* a delete_many that removes nothing
delete_many_email_keeps(coll, email) == coll

\* collection.delete_many({"email": email}): removes every match
delete_many_email(coll, email) == SelectSeq(coll, LAMBDA d : d.email # email)

insert_one(coll, doc) == Append(coll, doc)

\* index of the first document of coll, from position i on, with that id; 0 if none
FirstIndexId(coll, id, i) ==
    LET S == {j \in i..Len(coll) : coll[j].id = id}
    IN IF S = {} THEN 0 ELSE CHOOSE j \in S : \A k \in S : j <= k

\* a find_one that ignores the filter
find_one_id_first(coll, id) ==
    IF coll = <<>> THEN <<>> ELSE <<coll[1]>>

\* collection.find_one({"id": item_id}, {"_id": 0})
find_one_id(coll, id) ==
    LET i == FirstIndexId(coll, id, 1)
    IN IF i = 0 THEN <<>> ELSE <<coll[i]>>

\* a delete_one that counts the match and keeps it
delete_one_id_keeps(coll, id) ==
    LET i == FirstIndexId(coll, id, 1)
    IN [coll |-> coll, deleted_count |-> IF i = 0 THEN 0 ELSE 1]

\* collection.delete_one({"id": item_id}): the collection left and deleted_count
delete_one_id(coll, id) ==
    LET i == FirstIndexId(coll, id, 1)
    IN IF i = 0 THEN [coll |-> coll, deleted_count |-> 0]
       ELSE [coll |-> RemoveAt(coll, i), deleted_count |-> 1]

\* collection.update_one({"id": item_id}, {"$set": data}): sets the fields of
\* data in the first match, if any
update_one_id(coll, id, data) ==
    LET i == FirstIndexId(coll, id, 1)
    IN IF i = 0 THEN coll
       ELSE [coll EXCEPT ![i] =
                [f \in DOMAIN coll[i] |-> IF f \in DOMAIN data THEN data[f] ELSE coll[i][f]]]

\* collection.find({"available": True}, {"_id": 0})
find_available(coll) == SelectSeq(coll, LAMBDA d : d.available = TRUE)

\* collection.find({"is_special": True, "available": True}, {"_id": 0})
find_specials(coll) ==
    SelectSeq(coll, LAMBDA d : d.is_special = TRUE /\ d.available = TRUE)

\* a distinct that looks at the available documents only
distinct_available(coll, field) ==
    {coll[i][field] : i \in {j \in 1..Len(coll) : coll[j].available = TRUE}}

\* collection.distinct(field): the values of the field over all documents
distinct(coll, field) == {coll[i][field] : i \in 1..Len(coll)}

\* cursor.to_list(1000)
ListLimit == 1000

to_list(coll, n) == IF Len(coll) <= n THEN coll ELSE SubSeq(coll, 1, n)

\* the document as the response model MenuItem: created_at parsed from its string
AsMenuItem(doc) == [doc EXCEPT !.created_at = fromisoformat(doc.created_at)]

AsMenuItems(docs) == [i \in 1..Len(docs) |-> AsMenuItem(docs[i])]

\* --------------------------------------------------------- session tokens
\* HS256 over header.payload with a key: the signature is bound to the
\* payload it was computed from and to the key.
HS256(email, exp, key) == [key |-> key, email |-> email, exp |-> exp]

\* jwt.encode: the datetime "exp" is written as whole seconds since the epoch
\* (timegm of the time tuple, the fraction of a second is dropped).
jwt_encode(email, exp_ticks, key) ==
    LET exp == exp_ticks \div TicksPerSec
    IN [kind |-> "jwt", email |-> email, exp |-> exp, sig |-> HS256(email, exp, key)]

\* a token that lives as long as a challenge
create_jwt_token_short(email, t) == jwt_encode(email, t + OtpTtl, JWT_SECRET)

\* create_jwt_token: "exp" is the clock plus timedelta(days=7)
create_jwt_token(email, t) == jwt_encode(email, t + JwtTtl, JWT_SECRET)

\* a decode that does not check the signature
jwt_decode_unsigned(token, key, t) ==
    IF token.kind # "jwt" THEN {[error |-> "InvalidTokenError", email |-> ""]}
    ELSE IF token.exp * TicksPerSec < t
    THEN {[error |-> "ExpiredSignatureError", email |-> ""]}
    ELSE {[error |-> "", email |-> token.email]}

\* jwt.decode(token, key, algorithms=["HS256"]) at time t: the set of its
\* possible results.  The signature is checked first, then "exp" against the
\* clock; at the very instant "exp" the result depends on the library version
\* (exp < now or exp <= now), so both are possible there.
jwt_decode(token, key, t) ==
    IF token.kind # "jwt" THEN {[error |-> "InvalidTokenError", email |-> ""]}
    ELSE IF token.sig # HS256(token.email, token.exp, key)
    THEN {[error |-> "InvalidTokenError", email |-> ""]}
    ELSE IF token.exp * TicksPerSec < t
    THEN {[error |-> "ExpiredSignatureError", email |-> ""]}
    ELSE IF token.exp * TicksPerSec = t
    THEN {[error |-> "ExpiredSignatureError", email |-> ""],
          [error |-> "", email |-> token.email]}
    ELSE {[error |-> "", email |-> token.email]}

\* a verify_jwt_token that answers 403 to an expired token
verify_jwt_token_403(token, t) ==
    {IF r.error = "ExpiredSignatureError"
        THEN [ok |-> FALSE, email |-> "", error |-> HTTPException(403, "Token has expired")]
     ELSE IF r.error = "InvalidTokenError"
        THEN [ok |-> FALSE, email |-> "", error |-> HTTPException(401, "Invalid token")]
     ELSE [ok |-> TRUE, email |-> r.email, error |-> NoResp] : r \in jwt_decode(token, JWT_SECRET, t)}

\* verify_jwt_token: the email of the token, or the 401 it raises
verify_jwt_token(token, t) ==
    {IF r.error = "ExpiredSignatureError"
        THEN [ok |-> FALSE, email |-> "", error |-> HTTPException(401, "Token has expired")]
     ELSE IF r.error = "InvalidTokenError"
        THEN [ok |-> FALSE, email |-> "", error |-> HTTPException(401, "Invalid token")]
     ELSE [ok |-> TRUE, email |-> r.email, error |-> NoResp] : r \in jwt_decode(token, JWT_SECRET, t)}

\* a bearer scheme that answers 401 to a request without credentials
HTTPBearer_401(credentials) ==
    IF credentials.kind = "none"
    THEN [ok |-> FALSE, error |-> HTTPException(401, "Not authenticated")]
    ELSE [ok |-> TRUE, error |-> NoResp]

\* security = HTTPBearer(): a request without credentials is answered 403
\* before the dependency runs (backend_test.py expects 403 with no token)
HTTPBearer(credentials) ==
    IF credentials.kind = "none"
    THEN [ok |-> FALSE, error |-> HTTPException(403, "Not authenticated")]
    ELSE [ok |-> TRUE, error |-> NoResp]

\* a dependency that does not compare the email with ADMIN_EMAIL
get_current_admin_any(credentials, t) ==
    IF ~HTTPBearer(credentials).ok
    THEN {[ok |-> FALSE, email |-> "", error |-> HTTPBearer(credentials).error]}
    ELSE verify_jwt_token(credentials, t)

\* a dependency that looks up the token issued last and refuses every other
get_current_admin_revoking(credentials, t) ==
    IF ~HTTPBearer(credentials).ok
    THEN {[ok |-> FALSE, email |-> "", error |-> HTTPBearer(credentials).error]}
    ELSE IF credentials # issued.token
    THEN {[ok |-> FALSE, email |-> "", error |-> HTTPException(401, "Invalid token")]}
    ELSE {IF ~v.ok THEN v
          ELSE IF v.email # ADMIN_EMAIL
             THEN [ok |-> FALSE, email |-> "", error |-> HTTPException(403, "Not authorized")]
          ELSE v : v \in verify_jwt_token(credentials, t)}

\* get_current_admin: the results the dependency can have for these
\* credentials at time t
get_current_admin(credentials, t) ==
    IF ~HTTPBearer(credentials).ok
    THEN {[ok |-> FALSE, email |-> "", error |-> HTTPBearer(credentials).error]}
    ELSE {IF ~v.ok THEN v
          ELSE IF v.email # ADMIN_EMAIL
             THEN [ok |-> FALSE, email |-> "", error |-> HTTPException(403, "Not authorized")]
          ELSE v : v \in verify_jwt_token(credentials, t)}

NoEvent == [kind |-> "none", otp |-> "", replaced |-> ""]

\* the state after startup at clock reading t, the menu collection empty
InitAt(t) ==
    /\ otp_verifications = <<>>
    /\ menu_items = <<>>
    /\ now = t
    /\ ticks = 0
    /\ pc = [p \in Procs |-> "idle"]
    /\ req = [p \in Procs |-> NoReq]
    /\ resp = [p \in Procs |-> NoResp]
    /\ mail = NoMail
    /\ issued = [token |-> NoToken, at |-> 0]
    /\ next_id = 0
    /\ last = NoEvent

Init == InitAt(0)

\* the handler returns: the response is ready for the client
Return(p, r) ==
    /\ pc' = [pc EXCEPT ![p] = "done"]
    /\ resp' = [resp EXCEPT ![p] = r]

Goto(p, label) ==
    /\ pc' = [pc EXCEPT ![p] = label]
    /\ resp' = resp

\* ------------------------------------------------------------- send_otp
\* a check that lets every email through
email_not_authorized_never(email) == FALSE

\* if request.email != ADMIN_EMAIL: raise 403, in both login routes
email_not_authorized(email) == email # ADMIN_EMAIL

\* otp_doc: created_at from one clock reading, expires_at from a second one
\* taken d ticks later
new_otp_doc(email, otp, t, d) ==
    [email |-> email, otp |-> otp,
     created_at |-> isoformat(t),
     expires_at |-> isoformat(t + d + OtpTtl)]

\* POST /auth/send-otp up to its first store call: the email check, the code,
\* the document, the delete_many
send_otp(p, email, otp, d) ==
    /\ pc[p] = "idle"
    /\ IF email_not_authorized(email)
       THEN /\ d = 0
            /\ req' = [req EXCEPT ![p] = [op |-> "send_otp", email |-> email, otp |-> ""]]
            /\ Return(p, HTTPException(403, "Email not authorized"))
            /\ UNCHANGED <<otp_verifications, now, ticks>>
       ELSE /\ d > 0 => ticks < MaxTicks
            /\ req' = [req EXCEPT ![p] =
                        [op |-> "send_otp", email |-> email, otp |-> otp,
                         otp_doc |-> new_otp_doc(email, otp, now, d),
                         replaced |-> IF find_one_email(otp_verifications, email) = <<>>
                                      THEN ""
                                      ELSE find_one_email(otp_verifications, email)[1].otp]]
            /\ now' = now + d
            /\ ticks' = IF d > 0 THEN ticks + 1 ELSE ticks
            /\ otp_verifications' = delete_many_email(otp_verifications, email)
            /\ Goto(p, "send_insert_one")
    /\ UNCHANGED <<menu_items, mail, issued, next_id, last>>

\* a handler that takes the challenge back when the provider fails
send_otp_insert_one_rollback(p, sent) ==
    /\ pc[p] = "send_insert_one"
    /\ otp_verifications' = IF sent THEN insert_one(otp_verifications, req[p].otp_doc)
                                   ELSE otp_verifications
    /\ last' = [kind |-> "sent", otp |-> req[p].otp, replaced |-> req[p].replaced]
    /\ req' = [req EXCEPT ![p] = [op |-> "send_otp", email |-> req[p].email, otp |-> req[p].otp]]
    /\ IF sent
       THEN /\ mail' = [to |-> req[p].email, otp |-> req[p].otp]
            /\ Return(p, Ok("OTP sent successfully"))
       ELSE /\ mail' = mail
            /\ Return(p, HTTPException(500, "Failed to send OTP email"))
    /\ UNCHANGED <<menu_items, now, ticks, issued, next_id>>

\* await insert_one(otp_doc), then send_otp_email(request.email, otp) and the
\* return; sent tells whether the provider accepted the message (any
\* exception of the provider becomes a 500)
send_otp_insert_one(p, sent) ==
    /\ pc[p] = "send_insert_one"
    /\ otp_verifications' = insert_one(otp_verifications, req[p].otp_doc)
    /\ last' = [kind |-> "sent", otp |-> req[p].otp, replaced |-> req[p].replaced]
    /\ req' = [req EXCEPT ![p] = [op |-> "send_otp", email |-> req[p].email, otp |-> req[p].otp]]
    /\ IF sent
       THEN /\ mail' = [to |-> req[p].email, otp |-> req[p].otp]
            /\ Return(p, Ok("OTP sent successfully"))
       ELSE /\ mail' = mail
            /\ Return(p, HTTPException(500, "Failed to send OTP email"))
    /\ UNCHANGED <<menu_items, now, ticks, issued, next_id>>

\* ------------------------------------------------------------ verify_otp
\* the checks with a wrong code handled as an expired challenge
otp_check_wrong_is_expired(otp_doc, otp, t) ==
    IF otp_doc = <<>> THEN "not_found"
    ELSE IF t > fromisoformat(otp_doc[1].expires_at) \/ otp_doc[1].otp # otp THEN "expired"
    ELSE "match"

\* the checks with the code compared before the expiry
otp_check_code_first(otp_doc, otp, t) ==
    IF otp_doc = <<>> THEN "not_found"
    ELSE IF otp_doc[1].otp # otp THEN "invalid"
    ELSE IF t > fromisoformat(otp_doc[1].expires_at) THEN "expired"
    ELSE "match"

\* the checks without the comparison of the codes
otp_check_any_code(otp_doc, otp, t) ==
    IF otp_doc = <<>> THEN "not_found"
    ELSE IF t > fromisoformat(otp_doc[1].expires_at) THEN "expired"
    ELSE "match"

\* the checks of verify_otp on what find_one returned, in their order
otp_check(otp_doc, otp, t) ==
    IF otp_doc = <<>> THEN "not_found"
    ELSE IF t > fromisoformat(otp_doc[1].expires_at) THEN "expired"
    ELSE IF otp_doc[1].otp # otp THEN "invalid"
    ELSE "match"

\* POST /auth/verify-otp up to its find_one and the checks on what it found
verify_otp(p, email, otp) ==
    /\ pc[p] = "idle"
    /\ req' = [req EXCEPT ![p] = [op |-> "verify_otp", email |-> email, otp |-> otp]]
    /\ IF email_not_authorized(email)
       THEN /\ Return(p, HTTPException(403, "Email not authorized"))
            /\ last' = last
       ELSE LET check == otp_check(find_one_email(otp_verifications, email), otp, now)
            IN IF check = "not_found"
               THEN /\ Return(p, HTTPException(404, "OTP not found or expired"))
                    /\ last' = last
               ELSE IF check = "expired"
               THEN /\ Goto(p, "verify_delete_expired")
                    /\ last' = last
               ELSE IF check = "invalid"
               THEN /\ Return(p, HTTPException(400, "Invalid OTP"))
                    /\ last' = [last EXCEPT !.kind = "invalid"]
               ELSE /\ Goto(p, "verify_delete_one")
                    /\ last' = last
    /\ UNCHANGED <<otp_verifications, menu_items, now, ticks, mail, issued, next_id>>

\* the delete_one of the expired branch, then the 400
verify_otp_delete_expired(p) ==
    /\ pc[p] = "verify_delete_expired"
    /\ otp_verifications' = delete_one_email(otp_verifications, req[p].email)
    /\ last' = [last EXCEPT !.kind = "expired"]
    /\ Return(p, HTTPException(400, "OTP has expired"))
    /\ UNCHANGED <<menu_items, now, ticks, req, mail, issued, next_id>>

\* the delete_one after a successful match, then the token
verify_otp_delete_one(p) ==
    /\ pc[p] = "verify_delete_one"
    /\ otp_verifications' = delete_one_email(otp_verifications, req[p].email)
    /\ LET token == create_jwt_token(req[p].email, now)
       IN /\ issued' = [token |-> token, at |-> now]
          /\ Return(p, [Ok("") EXCEPT !.token = token])
    /\ last' = [last EXCEPT !.kind = "verified", !.otp = req[p].otp]
    /\ UNCHANGED <<menu_items, now, ticks, req, mail, next_id>>

\* ------------------------------------------------------ public menu routes
\* a listing that drops the unavailable items from the collection as it reads
get_menu_cleanup(p) ==
    /\ pc[p] = "idle"
    /\ req' = [req EXCEPT ![p] = [op |-> "get_menu"]]
    /\ menu_items' = find_available(menu_items)
    /\ Return(p, [Ok("") EXCEPT !.body =
                     AsMenuItems(to_list(find_available(menu_items), ListLimit))])
    /\ UNCHANGED <<otp_verifications, now, ticks, mail, issued, next_id, last>>

\* GET /menu: no dependency, whatever the request carries
get_menu(p) ==
    /\ pc[p] = "idle"
    /\ req' = [req EXCEPT ![p] = [op |-> "get_menu"]]
    /\ Return(p, [Ok("") EXCEPT !.body =
                     AsMenuItems(to_list(find_available(menu_items), ListLimit))])
    /\ UNCHANGED <<otp_verifications, menu_items, now, ticks, mail, issued, next_id, last>>

\* the order of Python's sorted() on the category strings of the model
CategoryOrder == <<"", "Coffee", "Lassi">>

Rank(c) == CHOOSE i \in 1..Len(CategoryOrder) : CategoryOrder[i] = c

RECURSIVE sorted(_)
\* sorted(categories): ascending, the smallest first
sorted(S) ==
    IF S = {} THEN <<>>
    ELSE LET m == CHOOSE x \in S : \A y \in S : Rank(x) <= Rank(y)
         IN <<m>> \o sorted(S \ {m})

\* GET /menu/categories
get_categories(p) ==
    /\ pc[p] = "idle"
    /\ req' = [req EXCEPT ![p] = [op |-> "get_categories"]]
    /\ Return(p, [Ok("") EXCEPT !.body = sorted(distinct(menu_items, "category"))])
    /\ UNCHANGED <<otp_verifications, menu_items, now, ticks, mail, issued, next_id, last>>

\* GET /menu/specials
get_specials(p) ==
    /\ pc[p] = "idle"
    /\ req' = [req EXCEPT ![p] = [op |-> "get_specials"]]
    /\ Return(p, [Ok("") EXCEPT !.body =
                     AsMenuItems(to_list(find_specials(menu_items), ListLimit))])
    /\ UNCHANGED <<otp_verifications, menu_items, now, ticks, mail, issued, next_id, last>>

\* ------------------------------------------------------- admin menu routes
\* a request stopped by the dependency get_current_admin: the route body does
\* not run
Denied(p, r, error) ==
    /\ req' = [req EXCEPT ![p] = r]
    /\ Return(p, error)
    /\ UNCHANGED <<menu_items, next_id>>

\* GET /admin/menu
get_all_menu_items(p, credentials) ==
    /\ pc[p] = "idle"
    /\ LET r == [op |-> "get_all_menu_items", credentials |-> credentials, at |-> now]
       IN \E g \in get_current_admin(credentials, now) :
            IF ~g.ok THEN Denied(p, r, g.error)
            ELSE /\ req' = [req EXCEPT ![p] = r]
                 /\ Return(p, [Ok("") EXCEPT !.body =
                                  AsMenuItems(to_list(menu_items, ListLimit))])
                 /\ UNCHANGED <<menu_items, next_id>>
    /\ UNCHANGED <<otp_verifications, now, ticks, mail, issued, last>>

\* the fields that MenuItemCreate declares and the defaults of those that a
\* payload may leave out
CreateFields == {"category", "name", "price", "description", "is_special",
                 "available", "image_url"}

\* MenuItem declares the same defaults
CreateDefaults == [description |-> "", is_special |-> FALSE, available |-> TRUE,
                   image_url |-> ""]

\* the value of an optional field of item, its default when item has none
FieldOr(item, f) == IF f \in DOMAIN item THEN item[f] ELSE CreateDefaults[f]

\* a model with extra = "allow": what the payload carries besides the declared
\* fields is kept
MenuItemCreate_allow(payload) ==
    [f \in CreateFields \cup DOMAIN payload |->
        IF f \in DOMAIN payload THEN payload[f] ELSE CreateDefaults[f]]

\* MenuItemCreate parsed from the request body, then model_dump(): the
\* declared fields, a default where the payload has none; what else the
\* payload carries is dropped
MenuItemCreate(payload) ==
    [f \in CreateFields |->
        IF f \in DOMAIN payload THEN payload[f] ELSE CreateDefaults[f]]

\* a MenuItem that is stored unavailable whatever the payload says
MenuItem_hidden(item, id, t) ==
    [id |-> IF "id" \in DOMAIN item THEN item.id ELSE id,
     category |-> item.category, name |-> item.name, price |-> item.price,
     description |-> FieldOr(item, "description"),
     is_special |-> FieldOr(item, "is_special"),
     available |-> FALSE, image_url |-> FieldOr(item, "image_url"),
     created_at |-> IF "created_at" \in DOMAIN item THEN item.created_at ELSE t]

\* MenuItem(**item): the fields of item; the default factories give an id
\* drawn by uuid4 (here id) and created_at read from the clock (here t) when
\* item has none
MenuItem(item, id, t) ==
    [id |-> IF "id" \in DOMAIN item THEN item.id ELSE id,
     category |-> item.category, name |-> item.name, price |-> item.price,
     description |-> FieldOr(item, "description"),
     is_special |-> FieldOr(item, "is_special"),
     available |-> FieldOr(item, "available"),
     image_url |-> FieldOr(item, "image_url"),
     created_at |-> IF "created_at" \in DOMAIN item THEN item.created_at ELSE t]

\* POST /admin/menu
create_menu_item(p, credentials, item) ==
    /\ pc[p] = "idle"
    /\ next_id < MaxIds
    /\ LET r == [op |-> "create_menu_item", credentials |-> credentials, at |-> now,
                 item |-> item]
           menu_item == MenuItem(MenuItemCreate(item), next_id + 1, now)
           doc == [menu_item EXCEPT !.created_at = isoformat(menu_item.created_at)]
       IN \E g \in get_current_admin(credentials, now) :
            IF ~g.ok THEN Denied(p, r, g.error)
            ELSE /\ req' = [req EXCEPT ![p] = r]
                 /\ next_id' = next_id + 1
                 /\ menu_items' = insert_one(menu_items, doc)
                 /\ Return(p, [Ok("") EXCEPT !.body = <<menu_item>>])
    /\ UNCHANGED <<otp_verifications, now, ticks, mail, issued, last>>

\* the fields of the model MenuItemUpdate, each Optional with default None:
\* None is <<>> and a value v is <<v>>
UpdateFields == {"category", "name", "price", "description", "is_special",
                 "available", "image_url"}

MenuItemUpdate(fields) ==
    [k \in UpdateFields |-> IF k \in DOMAIN fields THEN <<fields[k]>> ELSE <<>>]

\* Python truth value of a field value: False, 0 and "" are falsy
Falsy(k, v) ==
    IF k = "price" THEN v = 0
    ELSE IF k \in {"is_special", "available"} THEN v = FALSE
    ELSE v = ""

\* a filter "if v" in place of "if v is not None"
update_data_truthy(item) ==
    LET ks == {k \in DOMAIN item : item[k] # <<>> /\ ~Falsy(k, item[k][1])}
    IN [k \in ks |-> item[k][1]]

\* update_data = {k: v for k, v in item.model_dump().items() if v is not None}
update_data(item) ==
    LET ks == {k \in DOMAIN item : item[k] # <<>>}
    IN [k \in ks |-> item[k][1]]

\* PUT /admin/menu/{item_id} up to its first find_one; item is the payload
update_menu_item(p, credentials, item_id, item) ==
    /\ pc[p] = "idle"
    /\ LET r == [op |-> "update_menu_item", credentials |-> credentials, at |-> now,
                 item_id |-> item_id, item |-> item,
                 update_data |-> update_data(item)]
       IN \E g \in get_current_admin(credentials, now) :
            IF ~g.ok THEN Denied(p, r, g.error)
            ELSE /\ req' = [req EXCEPT ![p] = r]
                 /\ IF find_one_id(menu_items, item_id) = <<>>
                    THEN Return(p, HTTPException(404, "Menu item not found"))
                    ELSE IF DOMAIN update_data(item) # {}
                    THEN Goto(p, "update_update_one")
                    ELSE Goto(p, "update_find_one")
                 /\ UNCHANGED <<menu_items, next_id>>
    /\ UNCHANGED <<otp_verifications, now, ticks, mail, issued, last>>

\* await db.menu_items.update_one({"id": item_id}, {"$set": update_data})
update_menu_item_update_one(p) ==
    /\ pc[p] = "update_update_one"
    /\ menu_items' = update_one_id(menu_items, req[p].item_id, req[p].update_data)
    /\ Goto(p, "update_find_one")
    /\ UNCHANGED <<otp_verifications, now, ticks, req, mail, issued, next_id, last>>

\* updated_item = await find_one(...); updated_item.get(...) fails on None and
\* the framework answers 500
update_menu_item_find_one(p) ==
    /\ pc[p] = "update_find_one"
    /\ LET updated_item == find_one_id(menu_items, req[p].item_id)
       IN IF updated_item = <<>>
          THEN Return(p, HTTPException(500, "Internal Server Error"))
          ELSE Return(p, [Ok("") EXCEPT !.body = <<AsMenuItem(updated_item[1])>>])
    /\ UNCHANGED <<otp_verifications, menu_items, now, ticks, req, mail, issued, next_id, last>>

\* DELETE /admin/menu/{item_id}
delete_menu_item(p, credentials, item_id) ==
    /\ pc[p] = "idle"
    /\ LET r == [op |-> "delete_menu_item", credentials |-> credentials, at |-> now,
                 item_id |-> item_id]
           result == delete_one_id(menu_items, item_id)
       IN \E g \in get_current_admin(credentials, now) :
            IF ~g.ok THEN Denied(p, r, g.error)
            ELSE /\ req' = [req EXCEPT ![p] = r]
                 /\ menu_items' = result.coll
                 /\ next_id' = next_id
                 /\ IF result.deleted_count = 0
                    THEN Return(p, HTTPException(404, "Menu item not found"))
                    ELSE Return(p, Ok("Menu item deleted successfully"))
    /\ UNCHANGED <<otp_verifications, now, ticks, mail, issued, last>>

\* the first half of a toggle route: the dependency and the find_one;
\* new_status = not existing_item.get(field, default)
ToggleFind(p, op, field, credentials, item_id) ==
    /\ pc[p] = "idle"
    /\ LET r == [op |-> op, credentials |-> credentials, at |-> now,
                 item_id |-> item_id, existing_item |-> <<>>, new_status |-> FALSE]
           existing_item == find_one_id(menu_items, item_id)
       IN \E g \in get_current_admin(credentials, now) :
            IF ~g.ok THEN Denied(p, r, g.error)
            ELSE /\ UNCHANGED <<menu_items, next_id>>
                 /\ IF existing_item = <<>>
                    THEN /\ req' = [req EXCEPT ![p] = r]
                         /\ Return(p, HTTPException(404, "Menu item not found"))
                    ELSE /\ req' = [req EXCEPT ![p] =
                                      [r EXCEPT !.existing_item = existing_item,
                                                !.new_status = ~existing_item[1][field]]]
                         /\ Goto(p, op)
    /\ UNCHANGED <<otp_verifications, now, ticks, mail, issued, last>>

\* a second half that sets the flag instead of writing new_status
ToggleUpdateOne_set(p, op, field, detail) ==
    /\ pc[p] = op
    /\ menu_items' = update_one_id(menu_items, req[p].item_id, [f \in {field} |-> TRUE])
    /\ Return(p, [Ok(detail) EXCEPT !.body = <<req[p].new_status>>])
    /\ UNCHANGED <<otp_verifications, now, ticks, req, mail, issued, next_id, last>>

\* the second half: update_one({"id": item_id}, {"$set": {field: new_status}})
ToggleUpdateOne(p, op, field, detail) ==
    /\ pc[p] = op
    /\ menu_items' = update_one_id(menu_items, req[p].item_id,
                                   [f \in {field} |-> req[p].new_status])
    /\ Return(p, [Ok(detail) EXCEPT !.body = <<req[p].new_status>>])
    /\ UNCHANGED <<otp_verifications, now, ticks, req, mail, issued, next_id, last>>

\* PUT /admin/menu/{item_id}/toggle-special
toggle_special(p, credentials, item_id) ==
    ToggleFind(p, "toggle_special", "is_special", credentials, item_id)

toggle_special_update_one(p) ==
    ToggleUpdateOne(p, "toggle_special", "is_special", "Special status updated")

\* PUT /admin/menu/{item_id}/toggle-available
toggle_available(p, credentials, item_id) ==
    ToggleFind(p, "toggle_available", "available", credentials, item_id)

toggle_available_update_one(p) ==
    ToggleUpdateOne(p, "toggle_available", "available", "Availability updated")

\* ------------------------------------------------------------------ startup
\* the catalog of preload_menu_data (the one accented letter written plain)
menu_data ==
    <<
      [category |-> "Lassi", name |-> "Sweet Lassi", price |-> 40,
       description |-> "Refreshing sweet lassi made from curd and sugar"],
      [category |-> "Lassi", name |-> "Banana Lassi", price |-> 55,
       description |-> "Creamy banana lassi"],
      [category |-> "Lassi", name |-> "Mango Lassi", price |-> 60,
       description |-> "Refreshing mango lassi"],
      [category |-> "Lassi", name |-> "Fruit Lassi", price |-> 60,
       description |-> "Mixed fruit lassi"],
      [category |-> "Lassi", name |-> "Strawberry Lassi", price |-> 60,
       description |-> "Fresh strawberry lassi"],
      [category |-> "Lassi", name |-> "Pista Lassi", price |-> 70,
       description |-> "Rich pistachio lassi"],
      [category |-> "Lassi", name |-> "Chocolate Lassi", price |-> 70,
       description |-> "Chocolate flavored lassi"],
      [category |-> "Lassi", name |-> "Dryfruit Lassi", price |-> 80,
       description |-> "Lassi with mixed dry fruits"],
      [category |-> "Lassi", name |-> "Fruit & Nut Lassi", price |-> 80,
       description |-> "Premium fruit and nut lassi"],
      [category |-> "Lassi", name |-> "Royal Lassi", price |-> 80,
       description |-> "Special royal lassi with saffron"],
      [category |-> "Falooda", name |-> "Classic Falooda", price |-> 80,
       description |-> "Traditional falooda with rose syrup"],
      [category |-> "Falooda", name |-> "Pista Falooda", price |-> 99,
       description |-> "Pistachio flavored falooda"],
      [category |-> "Falooda", name |-> "Fruity Falooda", price |-> 99,
       description |-> "Falooda with fresh fruits"],
      [category |-> "Falooda", name |-> "Royal Kashmiri Falooda", price |-> 120,
       description |-> "Premium Kashmiri style falooda"],
      [category |-> "Milk Shakes", name |-> "Banana Bonkers", price |-> 60,
       description |-> "Thick banana milkshake"],
      [category |-> "Milk Shakes", name |-> "Pista Shake", price |-> 60,
       description |-> "Pistachio milkshake"],
      [category |-> "Milk Shakes", name |-> "Vanilla Shake", price |-> 60,
       description |-> "Classic vanilla milkshake"],
      [category |-> "Milk Shakes", name |-> "Belgian Chocolate", price |-> 70,
       description |-> "Rich Belgian chocolate shake"],
      [category |-> "Milk Shakes", name |-> "Very Berry Strawberry", price |-> 70,
       description |-> "Strawberry milkshake"],
      [category |-> "Milk Shakes", name |-> "Oreo", price |-> 85,
       description |-> "Oreo cookie milkshake"],
      [category |-> "Milk Shakes", name |-> "Chocochip Cookies", price |-> 85,
       description |-> "Chocolate chip cookie shake"],
      [category |-> "Milk Shakes", name |-> "Kala Jamoon", price |-> 85,
       description |-> "Kala jamun flavored shake"],
      [category |-> "Milk Shakes", name |-> "Mango Alphonso", price |-> 85,
       description |-> "Alphonso mango shake"],
      [category |-> "Milk Shakes", name |-> "Blueberry", price |-> 85,
       description |-> "Fresh blueberry shake"],
      [category |-> "Milk Shakes", name |-> "Kesar Pista", price |-> 85,
       description |-> "Saffron and pistachio shake"],
      [category |-> "Milk Shakes", name |-> "Lychee & Lychee", price |-> 110,
       description |-> "Double lychee shake"],
      [category |-> "Milk Shakes", name |-> "Mango Lychee", price |-> 120,
       description |-> "Mango and lychee fusion"],
      [category |-> "Milk Shakes", name |-> "Cherry Bubble Shake", price |-> 120,
       description |-> "Cherry shake with popping boba"],
      [category |-> "Milk Shakes", name |-> "Mango Bubble Shake", price |-> 120,
       description |-> "Mango shake with popping boba"],
      [category |-> "Milk Shakes", name |-> "Berry Bubble Shake", price |-> 120,
       description |-> "Mixed berry shake with popping boba"],
      [category |-> "Dry Fruit Shakes", name |-> "Dry Fruit Shake", price |-> 99,
       description |-> "Mixed dry fruit shake"],
      [category |-> "Dry Fruit Shakes", name |-> "Arabian Night Shake", price |-> 109,
       description |-> "Arabian style dry fruit shake"],
      [category |-> "Dry Fruit Shakes", name |-> "Anjeer Shake", price |-> 110,
       description |-> "Fig dry fruit shake"],
      [category |-> "Dry Fruit Shakes", name |-> "Kaju Anjeer Shake", price |-> 120,
       description |-> "Cashew and fig shake"],
      [category |-> "Muds & Hotties", name |-> "Mississippi Mud", price |-> 120,
       description |-> "Rich chocolate mud"],
      [category |-> "Muds & Hotties", name |-> "Oreo Mud", price |-> 130,
       description |-> "Oreo chocolate mud"],
      [category |-> "Muds & Hotties", name |-> "KitKat Mud", price |-> 130,
       description |-> "KitKat chocolate mud"],
      [category |-> "Muds & Hotties", name |-> "Choco Blast", price |-> 70,
       description |-> "Hot chocolate blast"],
      [category |-> "Muds & Hotties", name |-> "Cafe Coffee", price |-> 80,
       description |-> "Hot cafe coffee"],
      [category |-> "Muds & Hotties", name |-> "Minty Coffee", price |-> 80,
       description |-> "Coffee with mint"],
      [category |-> "Muds & Hotties", name |-> "Marshmallow Hot Chocolate", price |-> 90,
       description |-> "Hot chocolate with marshmallows"],
      [category |-> "Fries & Crazy Bites", name |-> "Just Masala Fries", price |-> 79,
       description |-> "Masala seasoned fries"],
      [category |-> "Fries & Crazy Bites", name |-> "Chilli Cheese Fries", price |-> 89,
       description |-> "Fries with chili and cheese"],
      [category |-> "Fries & Crazy Bites", name |-> "Schezwan Fries", price |-> 89,
       description |-> "Spicy schezwan fries"],
      [category |-> "Fries & Crazy Bites", name |-> "Peri Peri Fries", price |-> 99,
       description |-> "Peri peri flavored fries"],
      [category |-> "Fries & Crazy Bites", name |-> "Smilies", price |-> 99,
       description |-> "Crispy potato smilies"],
      [category |-> "Fries & Crazy Bites", name |-> "Crazy Cheesy Nuggets", price |-> 99,
       description |-> "Cheese filled nuggets"],
      [category |-> "Fries & Crazy Bites", name |-> "Cheese Pizza Fingers", price |-> 99,
       description |-> "Cheesy pizza fingers"],
      [category |-> "Fries & Crazy Bites", name |-> "Loaded Nachos", price |-> 120,
       description |-> "Nachos with loaded toppings"],
      [category |-> "Fries & Crazy Bites", name |-> "Wild Wedges", price |-> 120,
       description |-> "Spicy potato wedges"],
      [category |-> "Momos", name |-> "Mix Veg Momos", price |-> 89,
       description |-> "Steamed vegetable momos"],
      [category |-> "Momos", name |-> "Schezwan Momos", price |-> 89,
       description |-> "Spicy schezwan momos"],
      [category |-> "Momos", name |-> "Paneer Momos", price |-> 99,
       description |-> "Paneer filled momos"],
      [category |-> "Momos", name |-> "Mushroom Momos", price |-> 99,
       description |-> "Mushroom filled momos"],
      [category |-> "Momos", name |-> "Corn N Cheese Momos", price |-> 100,
       description |-> "Corn and cheese momos"],
      [category |-> "Momos", name |-> "Paneer Tikka Momos", price |-> 109,
       description |-> "Paneer tikka flavored momos"],
      [category |-> "Burger Pav", name |-> "Classic Vadapav", price |-> 29,
       description |-> "Traditional Mumbai vadapav"],
      [category |-> "Burger Pav", name |-> "Tandoori Burgerpav", price |-> 45,
       description |-> "Tandoori flavored burger"],
      [category |-> "Burger Pav", name |-> "Crispy N Crunchy BP", price |-> 50,
       description |-> "Crispy burger pav"],
      [category |-> "Burger Pav", name |-> "Horny Corny Burgerpav", price |-> 50,
       description |-> "Corn filled burger"],
      [category |-> "Burger Pav", name |-> "Maharaja Burgerpav", price |-> 55,
       description |-> "Special maharaja burger"],
      [category |-> "Burger Pav", name |-> "Cheesemaar Burgerpav", price |-> 55,
       description |-> "Extra cheese burger"],
      [category |-> "Cold Coffee", name |-> "Cold Coffee", price |-> 60,
       description |-> "Classic cold coffee"],
      [category |-> "Cold Coffee", name |-> "Chocolate Coffee", price |-> 80,
       description |-> "Chocolate flavored cold coffee"],
      [category |-> "Cold Coffee", name |-> "Oreo & Coffee", price |-> 80,
       description |-> "Oreo cold coffee"],
      [category |-> "Cold Coffee", name |-> "Coffee On Rocks", price |-> 80,
       description |-> "Iced coffee on rocks"],
      [category |-> "Cold Coffee", name |-> "Baby Bubble Coffee", price |-> 110,
       description |-> "Coffee with popping boba"],
      [category |-> "Cold Coffee", name |-> "Mud Coffee", price |-> 120,
       description |-> "Coffee mud shake"],
      [category |-> "Cappuccino", name |-> "Classic Cappuccino", price |-> 80,
       description |-> "Traditional cappuccino"],
      [category |-> "Cappuccino", name |-> "Caramel Cappuccino", price |-> 90,
       description |-> "Caramel flavored cappuccino"],
      [category |-> "Cappuccino", name |-> "Mocha Cappuccino", price |-> 95,
       description |-> "Chocolate mocha cappuccino"],
      [category |-> "On Nutella", name |-> "Nutella Shake", price |-> 120,
       description |-> "Creamy Nutella shake"],
      [category |-> "On Nutella", name |-> "Nutella Brownie Icecream", price |-> 135,
       description |-> "Nutella with brownie and ice cream"],
      [category |-> "On Nutella", name |-> "Nutella Fudge Icecream", price |-> 135,
       description |-> "Nutella fudge with ice cream"],
      [category |-> "On Mojito", name |-> "Blue Blast", price |-> 79,
       description |-> "Blue mojito blast"],
      [category |-> "On Mojito", name |-> "Bubble Gum", price |-> 89,
       description |-> "Bubble gum mojito"],
      [category |-> "On Mojito", name |-> "Boba Melon", price |-> 89,
       description |-> "Melon mojito with boba"],
      [category |-> "On Mojito", name |-> "Mango Bubble", price |-> 89,
       description |-> "Mango mojito with boba"],
      [category |-> "On Mojito", name |-> "Berry Pop Bubble", price |-> 99,
       description |-> "Berry mojito with popping boba"],
      [category |-> "Ice Creams", name |-> "Fruit Salad Icecream", price |-> 90,
       description |-> "Mixed fruit ice cream"],
      [category |-> "Ice Creams", name |-> "Fruit Salad Jelly", price |-> 99,
       description |-> "Fruit salad with jelly"],
      [category |-> "Ice Creams", name |-> "Mexican Brownie", price |-> 80,
       description |-> "Mexican brownie with ice cream"],
      [category |-> "Ice Creams", name |-> "Chocolate Fudge", price |-> 80,
       description |-> "Rich chocolate fudge"],
      [category |-> "Ice Creams", name |-> "Strawberry Fudge", price |-> 80,
       description |-> "Strawberry fudge ice cream"],
      [category |-> "Ice Creams", name |-> "Mocha Fudge", price |-> 85,
       description |-> "Coffee mocha fudge"],
      [category |-> "Ice Creams", name |-> "Mocha Mexican Brownie", price |-> 95,
       description |-> "Mocha brownie ice cream"],
      [category |-> "Ice Creams", name |-> "Black Currant Fudge", price |-> 90,
       description |-> "Black currant fudge"],
      [category |-> "Ice Creams", name |-> "Butterscotch Fudge", price |-> 99,
       description |-> "Butterscotch fudge ice cream"],
      [category |-> "Ice Creams", name |-> "Berry-O-La Fudge", price |-> 99,
       description |-> "Mixed berry fudge"],
      [category |-> "Ice Creams", name |-> "Gud Bud", price |-> 120,
       description |-> "Special gud bud ice cream"],
      [category |-> "Ice Creams", name |-> "Death By Chocolate", price |-> 130,
       description |-> "Ultimate chocolate overload"],
      [category |-> "Ice Creams", name |-> "Dry Fruit Sundae", price |-> 135,
       description |-> "Sundae with dry fruits"],
      [category |-> "Ice Creams", name |-> "Lychee With Icecream", price |-> 135,
       description |-> "Lychee ice cream special"],
      [category |-> "Ice Creams", name |-> "Roasted Almond", price |-> 135,
       description |-> "Roasted almond ice cream"],
      [category |-> "Ice Creams", name |-> "Choco Almond", price |-> 135,
       description |-> "Chocolate almond ice cream"],
      [category |-> "Ice Creams", name |-> "Sizzling Brownie", price |-> 139,
       description |-> "Hot sizzling brownie"],
      [category |-> "Ice Creams", name |-> "Kerala Puttu Ice Cream", price |-> 139,
       description |-> "Traditional Kerala puttu ice cream"],
      [category |-> "Fresh Juices", name |-> "Fresh Lime", price |-> 40,
       description |-> "Fresh lime juice"],
      [category |-> "Fresh Juices", name |-> "Masala Lime", price |-> 45,
       description |-> "Spicy masala lime"],
      [category |-> "Fresh Juices", name |-> "Mint Lime", price |-> 45,
       description |-> "Refreshing mint lime"],
      [category |-> "Fresh Juices", name |-> "Watermelon", price |-> 60,
       description |-> "Fresh watermelon juice"],
      [category |-> "Fresh Juices", name |-> "Muskmelon", price |-> 60,
       description |-> "Fresh muskmelon juice"],
      [category |-> "Fresh Juices", name |-> "Pineapple", price |-> 70,
       description |-> "Fresh pineapple juice"],
      [category |-> "Fresh Juices", name |-> "Papaya", price |-> 70,
       description |-> "Fresh papaya juice"],
      [category |-> "Fresh Juices", name |-> "Apple", price |-> 80,
       description |-> "Fresh apple juice"],
      [category |-> "Fresh Juices", name |-> "Orange", price |-> 80,
       description |-> "Fresh orange juice"],
      [category |-> "Fresh Juices", name |-> "Mango", price |-> 80,
       description |-> "Fresh mango juice"],
      [category |-> "Fresh Juices", name |-> "ABC", price |-> 90,
       description |-> "Apple, Beetroot, Carrot juice"],
      [category |-> "Fresh Juices", name |-> "CAP", price |-> 90,
       description |-> "Carrot, Apple, Pineapple juice"],
      [category |-> "Add Ons", name |-> "Extra Chocochips", price |-> 15,
       description |-> "Add chocolate chips"],
      [category |-> "Add Ons", name |-> "Extra Chocolate", price |-> 15,
       description |-> "Extra chocolate topping"],
      [category |-> "Add Ons", name |-> "Extra Nuts", price |-> 25,
       description |-> "Extra dry fruits and nuts"],
      [category |-> "Add Ons", name |-> "Extra Cheese", price |-> 25,
       description |-> "Extra cheese topping"],
      [category |-> "Add Ons", name |-> "Extra Sauce", price |-> 20,
       description |-> "Extra sauce of your choice"]
    >>

\* the id that uuid4 gives the i-th item of the catalog: the ids drawn at
\* startup are numbered downwards, those drawn by create_menu_item upwards, so
\* that the two never meet
SeedId(i) == 0 - i

\* a startup hook that does not count the documents first
preload_menu_data_always(p) ==
    /\ pc[p] = "preload"
    /\ req' = [req EXCEPT ![p] = [op |-> "preload_menu_data", i |-> 1]]
    /\ Goto(p, "preload_insert_one")
    /\ UNCHANGED <<otp_verifications, menu_items, now, ticks, mail, issued, next_id, last>>

\* @app.on_event("startup"): count_documents({}) and the test of the count;
\* the process serves no request before the hook has ended
preload_menu_data(p) ==
    /\ pc[p] = "preload"
    /\ LET count == Len(menu_items)
       IN IF count = 0
          THEN /\ req' = [req EXCEPT ![p] = [op |-> "preload_menu_data", i |-> 1]]
               /\ Goto(p, "preload_insert_one")
          ELSE /\ req' = [req EXCEPT ![p] = NoReq]
               /\ Goto(p, "idle")
    /\ UNCHANGED <<otp_verifications, menu_items, now, ticks, mail, issued, next_id, last>>

\* one turn of the loop: MenuItem(**item_data), then insert_one(doc)
preload_menu_data_insert_one(p) ==
    /\ pc[p] = "preload_insert_one"
    /\ LET i == req[p].i
           menu_item == MenuItem(menu_data[i], SeedId(i), now)
           doc == [menu_item EXCEPT !.created_at = isoformat(menu_item.created_at)]
       IN /\ menu_items' = insert_one(menu_items, doc)
          /\ IF i < Len(menu_data)
             THEN /\ req' = [req EXCEPT ![p].i = i + 1]
                  /\ Goto(p, "preload_insert_one")
             ELSE /\ req' = [req EXCEPT ![p] = NoReq]
                  /\ Goto(p, "idle")
    /\ UNCHANGED <<otp_verifications, now, ticks, mail, issued, next_id, last>>

\* ------------------------------------------------------------ environment
\* the client takes the response; the handler slot is free again
Collect(p) ==
    /\ pc[p] = "done"
    /\ pc' = [pc EXCEPT ![p] = "idle"]
    /\ req' = [req EXCEPT ![p] = NoReq]
    /\ resp' = [resp EXCEPT ![p] = NoResp]
    /\ UNCHANGED <<otp_verifications, menu_items, now, ticks, mail, issued, next_id, last>>

\* time passes
Tick(d) ==
    /\ ticks < MaxTicks
    /\ now' = now + d
    /\ ticks' = ticks + 1
    /\ UNCHANGED <<otp_verifications, menu_items, pc, req, resp, mail, issued, next_id, last>>

\* a request arrives at a free handler
AuthStart(gaps) ==
    \/ \E p \in Procs, email \in Emails, otp \in OtpCodes, d \in gaps : send_otp(p, email, otp, d)
    \/ \E p \in Procs, email \in Emails, otp \in SubmittedCodes : verify_otp(p, email, otp)

\* a store call of a request in flight completes
AuthStep ==
    \/ \E p \in Procs, sent \in BOOLEAN : send_otp_insert_one(p, sent)
    \/ \E p \in Procs : verify_otp_delete_expired(p)
    \/ \E p \in Procs : verify_otp_delete_one(p)

Env ==
    \/ \E p \in Procs : Collect(p)
    \/ \E d \in OtpClockSteps : Tick(d)

\* the login routes under concurrent requests
Next == AuthStart({0}) \/ AuthStep \/ Env

Spec == Init /\ [][Next]_vars

\* requests served one after the other: a request starts only when no other
\* is in flight and the previous response was taken
Solo == \A q \in Procs : pc[q] = "idle"

SeqNext == (Solo /\ AuthStart({0, 1})) \/ AuthStep \/ Env

SeqSpec == Init /\ [][SeqNext]_vars

\* ------------------------------------------------- login and admin requests
\* what a client can present as credentials: nothing, a string that is no
\* token, the token it was given, that token with its payload rewritten (the
\* signature left as it was), a token signed with another key, and a token
\* signed with the server key for another identity; the last two expire
\* after the end of every behaviour
Horizon == (MaxTicks + 1) * JwtTtl

Tampered(token) ==
    {[token EXCEPT !.email = OtherEmail], [token EXCEPT !.exp = token.exp + JwtTtlSec]}

Credentials ==
    {NoToken, Garbled,
     jwt_encode(ADMIN_EMAIL, Horizon, OtherSecret),
     jwt_encode(OtherEmail, Horizon, JWT_SECRET)}
    \cup (IF issued.token.kind = "jwt"
          THEN {issued.token} \cup Tampered(issued.token)
          ELSE {})

\* the item of the end-to-end test and a partial update of it
TestItem == [category |-> "Lassi", name |-> "Test", price |-> 50, description |-> "",
             is_special |-> FALSE, available |-> TRUE, image_url |-> ""]

TestUpdate == MenuItemUpdate([f \in {"price"} |-> 60])

ItemIds == 1..MaxIds

\* the fractions of a second at which the server can start: on the second
\* and one tick before the next
Phases == {0, TicksPerSec - 1}

\* the administrator is logging in: the server started at some fraction t of
\* a second, send_otp stored a challenge and verify_otp found it
GateInit ==
    \E t \in Phases, otp \in {"100000"} :
        /\ otp_verifications = <<new_otp_doc(ADMIN_EMAIL, otp, t, 0)>>
        /\ menu_items = <<>>
        /\ now = t
        /\ ticks = 0
        /\ pc = [p \in Procs |-> IF p = 1 THEN "verify_delete_one" ELSE "idle"]
        /\ req = [p \in Procs |-> IF p = 1
                                  THEN [op |-> "verify_otp", email |-> ADMIN_EMAIL, otp |-> otp]
                                  ELSE NoReq]
        /\ resp = [p \in Procs |-> NoResp]
        /\ mail = [to |-> ADMIN_EMAIL, otp |-> otp]
        /\ issued = [token |-> NoToken, at |-> 0]
        /\ next_id = 0
        /\ last = [NoEvent EXCEPT !.kind = "sent", !.otp = otp]

AdminStart ==
    \/ \E p \in Procs, c \in Credentials : get_all_menu_items(p, c)
    \/ \E p \in Procs, c \in Credentials : menu_items = <<>> /\ create_menu_item(p, c, TestItem)
    \/ \E p \in Procs, c \in Credentials, id \in ItemIds : update_menu_item(p, c, id, TestUpdate)
    \/ \E p \in Procs, c \in Credentials, id \in ItemIds : delete_menu_item(p, c, id)
    \/ \E p \in Procs, c \in Credentials, id \in ItemIds : toggle_special(p, c, id)
    \/ \E p \in Procs, c \in Credentials, id \in ItemIds : toggle_available(p, c, id)

AdminStep ==
    \/ \E p \in Procs : update_menu_item_update_one(p)
    \/ \E p \in Procs : update_menu_item_find_one(p)
    \/ \E p \in Procs : toggle_special_update_one(p)
    \/ \E p \in Procs : toggle_available_update_one(p)

GateEnv ==
    \/ \E p \in Procs : Collect(p)
    \/ \E d \in JwtClockSteps : Tick(d)

\* the admin routes, the requests served one after the other, an item created
\* only into the empty collection
GateNext ==
    \/ \E p \in Procs : verify_otp_delete_one(p)
    \/ (Solo /\ AdminStart)
    \/ AdminStep
    \/ GateEnv

GateSpec == GateInit /\ [][GateNext]_vars

\* ------------------------------------------------- the menu with a session
\* an item with nothing in it that the data model asks for, and a payload of
\* falsy values
BlankItem == [category |-> "", name |-> "", price |-> -1, description |-> "",
              is_special |-> TRUE, available |-> FALSE, image_url |-> ""]

ClearUpdate ==
    MenuItemUpdate([f \in {"category", "name", "price", "available"} |->
                      IF f = "category" THEN "Coffee"
                      ELSE IF f = "name" THEN ""
                      ELSE IF f = "price" THEN 0
                      ELSE FALSE])

CreateItems == {TestItem, BlankItem}

\* a payload with no field
NoUpdate == MenuItemUpdate(<<>>)

MenuUpdates == {ClearUpdate, NoUpdate}

MenuClockSteps == {1}

\* the document that create_menu_item stores for a payload
Created(item, id, t) ==
    [MenuItem(MenuItemCreate(item), id, t) EXCEPT !.created_at = isoformat(t)]

\* the administrator has logged in at time 0 and holds the token, and the
\* menu collection holds the documents coll, created with the ids 1..Len(coll)
MenuInitWith(coll) ==
    /\ otp_verifications = <<>>
    /\ menu_items = coll
    /\ now = 0
    /\ ticks = 0
    /\ pc = [p \in Procs |-> "idle"]
    /\ req = [p \in Procs |-> NoReq]
    /\ resp = [p \in Procs |-> NoResp]
    /\ mail = [to |-> ADMIN_EMAIL, otp |-> "100000"]
    /\ issued = [token |-> create_jwt_token(ADMIN_EMAIL, 0), at |-> 0]
    /\ next_id = Len(coll)
    /\ last = [NoEvent EXCEPT !.kind = "verified", !.otp = "100000"]

MenuInit == MenuInitWith(<<>>)

\* the handlers that serve the requests when they come one after the other
Workers == {1}

PublicStart ==
    \/ \E p \in Workers : get_menu(p)
    \/ \E p \in Workers : get_categories(p)
    \/ \E p \in Workers : get_specials(p)

MenuStart ==
    \/ PublicStart
    \/ \E p \in Workers : get_all_menu_items(p, issued.token)
    \/ \E p \in Workers, item \in CreateItems : create_menu_item(p, issued.token, item)
    \/ \E p \in Workers, id \in ItemIds, item \in MenuUpdates :
          update_menu_item(p, issued.token, id, item)
    \/ \E p \in Workers, id \in ItemIds : delete_menu_item(p, issued.token, id)
    \/ \E p \in Workers, id \in ItemIds : toggle_special(p, issued.token, id)
    \/ \E p \in Workers, id \in ItemIds : toggle_available(p, issued.token, id)

MenuEnv ==
    \/ \E p \in Workers : Collect(p)
    \/ \E d \in MenuClockSteps : ticks < MenuTicks /\ Tick(d)

\* the menu routes with the administrator's token, the requests served one
\* after the other by one handler
MenuNext == (Solo /\ MenuStart) \/ AdminStep \/ MenuEnv

MenuSpec == MenuInit /\ [][MenuNext]_vars

\* ------------------------------------------------- from the login to the menu
\* what the client holds as its token: the one verify_otp returned, nothing
\* before that
FlowStart ==
    \/ \E p \in Workers, otp \in OtpCodes : send_otp(p, ADMIN_EMAIL, otp, 0)
    \/ \E p \in Workers, otp \in OtpCodes : verify_otp(p, ADMIN_EMAIL, otp)
    \/ \E p \in Workers : create_menu_item(p, issued.token, TestItem)
    \/ \E p \in Workers : get_all_menu_items(p, issued.token)
    \/ \E p \in Workers, id \in ItemIds : delete_menu_item(p, issued.token, id)

FlowEnv ==
    \/ \E p \in Workers : Collect(p)
    \/ \E d \in OtpClockSteps : Tick(d)

\* the login routes and the routes of the end-to-end test, the requests
\* served one after the other by one handler
FlowNext == (Solo /\ FlowStart) \/ AuthStep \/ FlowEnv

FlowSpec == Init /\ [][FlowNext]_vars

\* ------------------------------------------------------- a process start
\* a payload that names the id of a stored item
IdItem == [id |-> SeedId(1), category |-> "Lassi", name |-> "Test", price |-> 50]

\* the ids that the requests after a start address
SeedTargets == {SeedId(1), 1}

\* the process starts at time 1 on a store that earlier runs left empty or
\* with an item created at time 0; the administrator still holds a token
SeedInit ==
    \E coll \in {<<>>, <<Created(TestItem, 1, 0)>>} :
        /\ otp_verifications = <<>>
        /\ menu_items = coll
        /\ now = 1
        /\ ticks = 0
        /\ pc = [p \in Procs |-> IF p = 1 THEN "preload" ELSE "idle"]
        /\ req = [p \in Procs |-> NoReq]
        /\ resp = [p \in Procs |-> NoResp]
        /\ mail = [to |-> ADMIN_EMAIL, otp |-> "100000"]
        /\ issued = [token |-> create_jwt_token(ADMIN_EMAIL, 0), at |-> 0]
        /\ next_id = Len(coll)
        /\ last = [NoEvent EXCEPT !.kind = "verified", !.otp = "100000"]

SeedStart ==
    \/ \E p \in Workers : create_menu_item(p, issued.token, IdItem)
    \/ \E p \in Workers, id \in SeedTargets : update_menu_item(p, issued.token, id, ClearUpdate)
    \/ \E p \in Workers, id \in SeedTargets : toggle_special(p, issued.token, id)
    \/ \E p \in Workers, id \in SeedTargets : toggle_available(p, issued.token, id)

\* the startup hook, then the admin routes served one after the other, the
\* clock read between the requests
SeedNext ==
    \/ \E p \in Workers : preload_menu_data(p)
    \/ \E p \in Workers : preload_menu_data_insert_one(p)
    \/ (Solo /\ SeedStart)
    \/ AdminStep
    \/ \E p \in Workers : Collect(p)
    \/ \E d \in MenuClockSteps : Solo /\ ticks < MenuTicks /\ Tick(d)

SeedSpec == SeedInit /\ [][SeedNext]_vars

\* no request is being served: every handler is free or holds a response that
\* the client has not taken yet
Quiet == \A q \in Procs : pc[q] \in {"idle", "done"}

\* the two items have been created
ToggleInit == MenuInitWith(<<Created(TestItem, 1, 0), Created(BlankItem, 2, 0)>>)

ToggleStart ==
    \/ \E p \in Procs, id \in ItemIds : toggle_special(p, issued.token, id)
    \/ \E p \in Procs, id \in ItemIds : toggle_available(p, issued.token, id)

ToggleStep ==
    \/ \E p \in Procs : toggle_special_update_one(p)
    \/ \E p \in Procs : toggle_available_update_one(p)

\* the toggle routes called one after the other, the responses kept
ToggleNext ==
    \/ (Quiet /\ ToggleStart)
    \/ ToggleStep
    \/ \E p \in Procs : Collect(p)

ToggleSpec == ToggleInit /\ [][ToggleNext]_vars

\* ------------------------------------------------------ a long menu
\* numbers of stored items around the length that to_list is given
BulkSizes == {ListLimit - 1, ListLimit, ListLimit + 1}

\* n items created through POST /admin/menu, all available, the last one special
Bulk(n) == [i \in 1..n |-> Created([TestItem EXCEPT !.is_special = (i = n)], i, 0)]

BulkInit == \E n \in BulkSizes : MenuInitWith(Bulk(n))

\* the four listings, asked for by any client at any time
BulkNext ==
    \/ \E p \in Procs : get_menu(p)
    \/ \E p \in Procs : get_categories(p)
    \/ \E p \in Procs : get_specials(p)
    \/ \E p \in Procs, c \in {NoToken, issued.token} : get_all_menu_items(p, c)
    \/ \E p \in Procs : Collect(p)
    \/ \E d \in MenuClockSteps : ticks < MenuTicks /\ Tick(d)

BulkSpec == BulkInit /\ [][BulkNext]_vars

\* ------------------------------------------------ logins after a login
\* the tokens a client holds: those of the responses not yet taken and the
\* one issued last
HeldTokens == ({resp[q].token : q \in Procs} \cup {issued.token}) \ {NoToken}

\* the handler that serves the later requests
Later == {2}

RevokeStart ==
    \/ \E p \in Later, otp \in OtpCodes : send_otp(p, ADMIN_EMAIL, otp, 0)
    \/ \E p \in Later, otp \in OtpCodes : verify_otp(p, ADMIN_EMAIL, otp)
    \/ \E p \in Later, c \in HeldTokens : get_all_menu_items(p, c)

\* the administrator, whose first login is not yet taken from its handler,
\* logs in again and again and presents the tokens to an admin route, the
\* requests made one after the other
RevokeNext ==
    \/ (Quiet /\ RevokeStart)
    \/ AuthStep
    \/ \E p \in Later : Collect(p)
    \/ \E d \in JwtClockSteps : Tick(d)

RevokeSpec == GateInit /\ [][RevokeNext]_vars

\* ------------------------------------------------- requests in flight together
\* updates and deletes of the two stored items, a request starting whatever
\* the other handlers are doing
RaceStart ==
    \/ \E p \in Procs, id \in ItemIds, item \in MenuUpdates :
          update_menu_item(p, issued.token, id, item)
    \/ \E p \in Procs, id \in ItemIds : delete_menu_item(p, issued.token, id)

RaceNext ==
    \/ RaceStart
    \/ \E p \in Procs : update_menu_item_update_one(p)
    \/ \E p \in Procs : update_menu_item_find_one(p)
    \/ \E p \in Procs : Collect(p)

RaceSpec == ToggleInit /\ [][RaceNext]_vars

\* the toggle routes on the two stored items, a request starting whatever the
\* other handlers are doing
ToggleRaceNext ==
    \/ ToggleStart
    \/ ToggleStep
    \/ \E p \in Procs : Collect(p)

ToggleRaceSpec == ToggleInit /\ [][ToggleRaceNext]_vars

\* ------------------------------------------------ every route, side by side
\* the handler that serves the login routes, next to the one of the others
Logins == {1}

\* the administrator is logged in, has created an item and has asked for a
\* new code, just now or more than ten minutes ago
FrameInit ==
    \E t \in {0, OtpTtl + 1} :
        /\ otp_verifications = <<new_otp_doc(ADMIN_EMAIL, "100000", 0, 0)>>
        /\ menu_items = <<Created(TestItem, 1, 0)>>
        /\ now = t
        /\ ticks = 0
        /\ pc = [p \in Procs |-> "idle"]
        /\ req = [p \in Procs |-> NoReq]
        /\ resp = [p \in Procs |-> NoResp]
        /\ mail = [to |-> ADMIN_EMAIL, otp |-> "100000"]
        /\ issued = [token |-> create_jwt_token(ADMIN_EMAIL, 0), at |-> 0]
        /\ next_id = 1
        /\ last = [NoEvent EXCEPT !.kind = "sent", !.otp = "100000"]

\* the token of that login, which the client of the menu routes keeps
FirstToken == create_jwt_token(ADMIN_EMAIL, 0)

FrameStart ==
    \/ \E p \in Logins : send_otp(p, ADMIN_EMAIL, "999999", 0)
    \/ \E p \in Logins, otp \in SubmittedCodes : verify_otp(p, ADMIN_EMAIL, otp)
    \/ \E p \in Later : get_menu(p)
    \/ \E p \in Later : get_categories(p)
    \/ \E p \in Later : get_specials(p)
    \/ \E p \in Later : get_all_menu_items(p, FirstToken)
    \/ \E p \in Later : create_menu_item(p, FirstToken, BlankItem)
    \/ \E p \in Later : update_menu_item(p, FirstToken, 1, ClearUpdate)
    \/ \E p \in Later, id \in ItemIds : delete_menu_item(p, FirstToken, id)
    \/ \E p \in Later : toggle_special(p, FirstToken, 1)
    \/ \E p \in Later : toggle_available(p, FirstToken, 1)

\* the login routes on one handler and the menu routes on another, a request
\* of the one starting whatever the other is doing; the first item is the one
\* that is updated and toggled
FrameNext ==
    \/ FrameStart
    \/ AuthStep
    \/ AdminStep
    \/ \E p \in Procs : Collect(p)

FrameSpec == FrameInit /\ [][FrameNext]_vars

\* ===================================================================== claims
\* handler p takes a request of one of these routes in this step
Starts(p, ops) == pc[p] = "idle" /\ pc'[p] # "idle" /\ req'[p].op \in ops

\* the challenges stored for the administrator, and the one find_one returns
AdminDocs == SelectSeq(otp_verifications, LAMBDA d : d.email = ADMIN_EMAIL)

Stored == find_one_email(otp_verifications, ADMIN_EMAIL)

LoginOps == {"send_otp", "verify_otp"}

AdminOps == {"get_all_menu_items", "create_menu_item", "update_menu_item",
             "delete_menu_item", "toggle_special", "toggle_available"}

\* the places of an admin route between two of its store calls
AdminPcs == {"update_update_one", "update_find_one", "toggle_special", "toggle_available"}

\* C1: a send_otp or verify_otp request whose email is not the administrator's
\* ends at once with 403, whatever is stored, and changes no challenge, sends
\* no message and issues no token.
C1_NonAdminForbidden ==
    [][\A p \in Procs :
        (Starts(p, LoginOps) /\ req'[p].email # ADMIN_EMAIL)
        => /\ pc'[p] = "done"
           /\ resp'[p].status = 403
           /\ resp'[p].token = NoToken
           /\ otp_verifications' = otp_verifications
           /\ mail' = mail
           /\ issued' = issued]_vars

\* a route has refused another email while a challenge is stored and after a
\* message and a token went out
C1_Witness ==
    \E p \in Procs :
        /\ pc[p] = "done" /\ req[p].op \in LoginOps
        /\ req[p].email # ADMIN_EMAIL /\ resp[p].status = 403
        /\ otp_verifications # <<>>
        /\ mail # NoMail
        /\ issued.token # NoToken

\* C2: with requests served one after the other, a verify_otp with the code
\* of the stored, unexpired challenge goes on to delete it and answers 200
\* with a token, after which no challenge is stored; a further verify_otp with
\* that code, no send_otp having stored a challenge since, answers 404.
C2_VerifyOnce ==
    [][\A p \in Procs :
        /\ (/\ Starts(p, {"verify_otp"}) /\ req'[p].email = ADMIN_EMAIL
            /\ Stored # <<>>
            /\ now <= fromisoformat(Stored[1].expires_at)
            /\ req'[p].otp = Stored[1].otp)
           => pc'[p] = "verify_delete_one"
        /\ (pc[p] = "verify_delete_one" /\ pc'[p] # pc[p])
           => /\ pc'[p] = "done"
              /\ resp'[p].status = 200
              /\ resp'[p].token.kind = "jwt"
              /\ find_one_email(otp_verifications', ADMIN_EMAIL) = <<>>
        /\ (/\ Starts(p, {"verify_otp"}) /\ req'[p].email = ADMIN_EMAIL
            /\ last.kind = "verified" /\ req'[p].otp = last.otp)
           => (pc'[p] = "done" /\ resp'[p].status = 404)]_vars

\* the code that was just accepted has been submitted again and refused with 404
C2_Witness ==
    \E p \in Procs :
        /\ pc[p] = "done" /\ req[p].op = "verify_otp" /\ req[p].email = ADMIN_EMAIL
        /\ last.kind = "verified" /\ req[p].otp = last.otp
        /\ resp[p].status = 404

\* C3: with requests served one after the other, a verify_otp whose code
\* differs from the code of the stored, unexpired challenge answers 400
\* "Invalid OTP" and leaves the collection as it was; the next verify_otp with
\* the right code, before expiry, goes on to delete the challenge and answers
\* 200.
C3_WrongCodeKeepsChallenge ==
    [][\A p \in Procs :
        /\ (/\ Starts(p, {"verify_otp"}) /\ req'[p].email = ADMIN_EMAIL
            /\ Stored # <<>>
            /\ now <= fromisoformat(Stored[1].expires_at)
            /\ req'[p].otp # Stored[1].otp)
           => /\ pc'[p] = "done"
              /\ resp'[p].status = 400
              /\ resp'[p].detail = "Invalid OTP"
              /\ otp_verifications' = otp_verifications
              /\ issued' = issued
        /\ (/\ Starts(p, {"verify_otp"}) /\ req'[p].email = ADMIN_EMAIL
            /\ last.kind = "invalid"
            /\ now <= fromisoformat(Stored[1].expires_at)
            /\ req'[p].otp = Stored[1].otp)
           => pc'[p] = "verify_delete_one"
        /\ (pc[p] = "verify_delete_one" /\ pc'[p] # pc[p] /\ last.kind = "invalid")
           => (resp'[p].status = 200 /\ resp'[p].token.kind = "jwt")]_vars

\* after a refused wrong code, the right code was found to match
C3_Witness ==
    \E p \in Procs :
        /\ pc[p] = "verify_delete_one"
        /\ last.kind = "invalid"
        /\ Stored # <<>> /\ req[p].otp = Stored[1].otp

\* C4: with requests served one after the other, a verify_otp made when the
\* clock is past expires_at of the stored challenge goes to the expired
\* branch whatever code it carries, deletes the challenge, answers 400 "OTP
\* has expired" without a token, and the next verify_otp answers 404.
C4_ExpiredChallenge ==
    [][\A p \in Procs :
        /\ (/\ Starts(p, {"verify_otp"}) /\ req'[p].email = ADMIN_EMAIL
            /\ Stored # <<>>
            /\ now > fromisoformat(Stored[1].expires_at))
           => pc'[p] = "verify_delete_expired"
        /\ (pc[p] = "verify_delete_expired" /\ pc'[p] # pc[p])
           => /\ pc'[p] = "done"
              /\ resp'[p].status = 400
              /\ resp'[p].detail = "OTP has expired"
              /\ resp'[p].token = NoToken
              /\ issued' = issued
              /\ find_one_email(otp_verifications', ADMIN_EMAIL) = <<>>
        /\ (/\ Starts(p, {"verify_otp"}) /\ req'[p].email = ADMIN_EMAIL
            /\ last.kind = "expired")
           => (pc'[p] = "done" /\ resp'[p].status = 404)]_vars

\* the right code came too late, and a further attempt found nothing
C4_Witness ==
    \E p \in Procs :
        /\ pc[p] = "done" /\ req[p].op = "verify_otp" /\ req[p].email = ADMIN_EMAIL
        /\ last.kind = "expired" /\ req[p].otp = last.otp
        /\ resp[p].status = 404

\* C5: with requests served one after the other, when a send_otp for the
\* administrator has answered 200 exactly one challenge is stored for the
\* administrator and it carries the code of that request, also when the
\* request replaced an earlier challenge.
C5_OneChallengeAfterSend ==
    \A p \in Procs :
        (/\ pc[p] = "done" /\ req[p].op = "send_otp"
         /\ req[p].email = ADMIN_EMAIL /\ resp[p].status = 200)
        => (Len(AdminDocs) = 1 /\ AdminDocs[1].otp = req[p].otp)

\* a second send_otp has replaced a challenge that carried another code
C5_Witness ==
    \E p \in Procs :
        /\ pc[p] = "done" /\ req[p].op = "send_otp" /\ resp[p].status = 200
        /\ last.replaced \notin {"", req[p].otp}
        /\ Len(AdminDocs) = 1

\* C6: in every state, also under interleaved send_otp requests, at most one
\* challenge is stored for the administrator email.
C6_AtMostOneChallenge == Len(AdminDocs) <= 1

\* the credentials carry a signature made with the server key over their own
\* payload
WellSigned(c) ==
    /\ c.kind = "jwt"
    /\ c.sig = [key |-> JWT_SECRET, email |-> c.email, exp |-> c.exp]

\* signed by the server, not past "exp" at time t, for the administrator
ValidAdminToken(c, t) ==
    /\ WellSigned(c)
    /\ t <= c.exp * TicksPerSec
    /\ c.email = ADMIN_EMAIL

\* C7: an admin route started with credentials that are not a server-signed,
\* unexpired token of the administrator ends at once with 401 or 403, returns
\* no item and leaves the menu collection alone; a route that is between two
\* store calls was started with such a token; and the menu collection changes
\* only in a step of a route started with such a token.
C7_GatedMenu ==
    [][/\ \A p \in Procs :
            (Starts(p, AdminOps) /\ ~ValidAdminToken(req'[p].credentials, now))
            => /\ pc'[p] = "done"
               /\ resp'[p].status \in {401, 403}
               /\ resp'[p].body = <<>>
               /\ menu_items' = menu_items
       /\ \A p \in Procs :
            pc[p] \in AdminPcs => ValidAdminToken(req[p].credentials, req[p].at)
       /\ menu_items' # menu_items
            => \E p \in Procs :
                 /\ pc'[p] # pc[p]
                 /\ req'[p].op \in AdminOps
                 /\ ValidAdminToken(req'[p].credentials, req'[p].at)]_vars

\* the token that was issued, its payload rewritten, is refused while an item
\* created with the token is stored
C7_Witness ==
    \E p \in Procs :
        /\ pc[p] = "done" /\ req[p].op \in AdminOps
        /\ issued.token.kind = "jwt"
        /\ req[p].credentials \in Tampered(issued.token)
        /\ resp[p].status = 401
        /\ menu_items # <<>>

\* the clock reading cut to a whole second
FloorSec(t) == (t \div TicksPerSec) * TicksPerSec

Accepted(email) == [ok |-> TRUE, email |-> email, error |-> NoResp]

Refused(status, detail) == [ok |-> FALSE, email |-> "", error |-> HTTPException(status, detail)]

\* the issued token with its payload rewritten, and a token made with another key
Forgeries ==
    Tampered(issued.token) \cup {jwt_encode(ADMIN_EMAIL, Horizon, OtherSecret)}

\* C8 as stated: the issued token can pass verify_jwt_token at any time before
\* its issue time plus 7 days and gives the email back; a forgery is refused
\* as invalid; after issue time plus 7 days the token is refused as expired.
C8_Original ==
    issued.token.kind = "jwt"
    => /\ now < issued.at + JwtTtl
          => Accepted(ADMIN_EMAIL) \in verify_jwt_token(issued.token, now)
       /\ \A c \in Forgeries :
            verify_jwt_token(c, now) = {Refused(401, "Invalid token")}
       /\ now > issued.at + JwtTtl
          => verify_jwt_token(issued.token, now) = {Refused(401, "Token has expired")}

\* C8 (amended): the issued token passes verify_jwt_token at any time before
\* the whole second of its issue time, plus 7 days, and gives the email back;
\* a forgery is refused as invalid; after issue time plus 7 days the token is
\* refused as expired.
C8_TokenRoundTrip ==
    issued.token.kind = "jwt"
    => /\ now < FloorSec(issued.at) + JwtTtl
          => verify_jwt_token(issued.token, now) = {Accepted(ADMIN_EMAIL)}
       /\ \A c \in Forgeries :
            verify_jwt_token(c, now) = {Refused(401, "Invalid token")}
       /\ now > issued.at + JwtTtl
          => verify_jwt_token(issued.token, now) = {Refused(401, "Token has expired")}

\* the issued token was presented later than it was issued and let a route run
C8_Witness ==
    \E p \in Procs :
        /\ pc[p] = "done" /\ req[p].op \in AdminOps
        /\ issued.token.kind = "jwt"
        /\ req[p].credentials = issued.token
        /\ req[p].at > issued.at
        /\ resp[p].status = 200

\* C9: an admin route started with a server-signed, unexpired token whose
\* email is not the administrator's ends at once with 403, returns no item
\* and leaves the menu collection alone.
C9_WrongIdentityForbidden ==
    [][\A p \in Procs :
        (/\ Starts(p, AdminOps)
         /\ WellSigned(req'[p].credentials)
         /\ now < req'[p].credentials.exp * TicksPerSec
         /\ req'[p].credentials.email # ADMIN_EMAIL)
        => /\ pc'[p] = "done"
           /\ resp'[p].status = 403
           /\ resp'[p].detail = "Not authorized"
           /\ resp'[p].body = <<>>
           /\ menu_items' = menu_items]_vars

\* a delete of a stored item was refused with 403 for such a token
C9_Witness ==
    \E p \in Procs :
        /\ pc[p] = "done" /\ req[p].op = "delete_menu_item"
        /\ WellSigned(req[p].credentials)
        /\ req[p].credentials.email # ADMIN_EMAIL
        /\ resp[p].status = 403
        /\ find_one_id(menu_items, req[p].item_id) # <<>>

\* no credentials, no token, a token whose signature does not match, or a
\* server-signed token past its "exp" at time t
BadCredentials(c, t) ==
    \/ c.kind \in {"none", "garbled"}
    \/ (c.kind = "jwt" /\ ~WellSigned(c))
    \/ (WellSigned(c) /\ t > c.exp * TicksPerSec)

\* C10 as stated: every admin route answers 401 to missing, garbled, tampered
\* or expired credentials.
C10_Original ==
    \A p \in Procs :
        (/\ pc[p] = "done" /\ req[p].op \in AdminOps
         /\ BadCredentials(req[p].credentials, req[p].at))
        => resp[p].status = 401

\* C10 (amended): every admin route answers 401 to garbled, tampered or
\* expired credentials, and 403 to a request without credentials.
C10_Unauthorized ==
    \A p \in Procs :
        (/\ pc[p] = "done" /\ req[p].op \in AdminOps
         /\ BadCredentials(req[p].credentials, req[p].at))
        => resp[p].status = IF req[p].credentials.kind = "none" THEN 403 ELSE 401

\* the issued token was presented after its "exp" and answered 401
C10_Witness ==
    \E p \in Procs :
        /\ pc[p] = "done" /\ req[p].op \in AdminOps
        /\ issued.token.kind = "jwt"
        /\ req[p].credentials = issued.token
        /\ req[p].at > issued.token.exp * TicksPerSec
        /\ resp[p].status = 401
        /\ resp[p].detail = "Token has expired"

\* C11: an admin request that carries no Authorization header is answered 403
\* with no menu data in the response, and the step that takes it leaves the
\* menu collection as it was.
C11_NoHeaderForbidden ==
    /\ [](\A p \in Procs :
            (/\ pc[p] = "done" /\ req[p].op \in AdminOps
             /\ req[p].credentials = NoToken)
            => (resp[p].status = 403 /\ resp[p].body = <<>>))
    /\ [][\A p \in Procs :
            (Starts(p, AdminOps) /\ req'[p].credentials = NoToken)
            => (pc'[p] = "done" /\ menu_items' = menu_items)]_vars

\* list-all without a header was answered 403 while an item is stored
C11_Witness ==
    \E p \in Procs :
        /\ pc[p] = "done" /\ req[p].op = "get_all_menu_items"
        /\ req[p].credentials = NoToken
        /\ resp[p].status = 403
        /\ menu_items # <<>>

\* C12 as stated: create and update refuse an empty name, an empty category
\* and a negative price, so every stored menu item has a non-empty name, a
\* non-empty category and a non-negative price.
C12_StoredItemsValid ==
    \A i \in 1..Len(menu_items) :
        /\ menu_items[i].name # ""
        /\ menu_items[i].category # ""
        /\ menu_items[i].price >= 0

\* the routes that address one stored item by its id
ById == {"update_menu_item", "delete_menu_item", "toggle_special", "toggle_available"}

\* C13: update, delete, toggle-special and toggle-available addressed to an
\* id that no stored item has answer 404 "Menu item not found" in the step
\* that takes the request, and leave the menu collection as it was.
C13_UnknownIdNotFound ==
    [][\A p \in Procs :
         (/\ Starts(p, ById)
          /\ \A i \in 1..Len(menu_items) : menu_items[i].id # req'[p].item_id)
         => (/\ pc'[p] = "done"
             /\ resp'[p].status = 404
             /\ resp'[p].detail = "Menu item not found"
             /\ menu_items' = menu_items)]_vars

\* an update of an id that was never given out was answered 404 while an item
\* is stored
C13_Witness ==
    \E p \in Procs :
        /\ pc[p] = "done" /\ req[p].op = "update_menu_item"
        /\ req[p].item_id > next_id
        /\ resp[p].status = 404
        /\ menu_items # <<>>

\* the stored document with this id (the id is stored)
StoredItem(coll, id) == find_one_id(coll, id)[1]

\* the document after the payload item was applied to it: a field that the
\* payload supplies takes the supplied value, every other field stays
Patched(doc, item) ==
    [f \in DOMAIN doc |->
        IF f \in DOMAIN item /\ item[f] # <<>> THEN item[f][1] ELSE doc[f]]

\* C14: update on a stored id sets exactly the fields that the payload
\* supplies, the values false, 0 and "" included, leaves every other field of
\* the item (id and created_at too) and every other item as they were, and
\* returns the item as it is stored after the change.
C14_UpdateSetsSupplied ==
    [][\A p \in Procs :
         LET id == req[p].item_id
             i == FirstIndexId(menu_items, id, 1)
         IN /\ (pc[p] = "idle" /\ pc'[p] \in {"update_update_one", "update_find_one"})
               => (/\ menu_items' = menu_items
                   /\ (pc'[p] = "update_find_one"
                       => \A f \in UpdateFields : req'[p].item[f] = <<>>))
            /\ (pc[p] = "update_update_one" /\ pc'[p] # pc[p])
               => (/\ i # 0
                   /\ menu_items' =
                        [menu_items EXCEPT ![i] = Patched(menu_items[i], req[p].item)]
                   /\ menu_items'[i].id = menu_items[i].id
                   /\ menu_items'[i].created_at = menu_items[i].created_at)
            /\ (pc[p] = "update_find_one" /\ pc'[p] # pc[p])
               => (/\ i # 0
                   /\ menu_items' = menu_items
                   /\ resp'[p].status = 200
                   /\ resp'[p].body =
                        <<[menu_items[i] EXCEPT
                             !.created_at = fromisoformat(menu_items[i].created_at)]>>)]_vars

\* an update with false, 0 and "" has been applied to an item created at an
\* earlier clock reading, while another item is stored
C14_Witness ==
    \E p \in Procs :
        /\ pc[p] = "done" /\ req[p].op = "update_menu_item"
        /\ req[p].item = ClearUpdate
        /\ resp[p].status = 200
        /\ Len(menu_items) = 2
        /\ LET doc == StoredItem(menu_items, req[p].item_id)
           IN /\ doc.name = "" /\ doc.price = 0 /\ doc.available = FALSE
              /\ doc.is_special = TRUE
              /\ fromisoformat(doc.created_at) < now

ToggleOps == {"toggle_special", "toggle_available"}

\* the flag that a toggle route flips
Flag(op) == IF op = "toggle_special" THEN "is_special" ELSE "available"

Flipped(doc, f) == [doc EXCEPT ![f] = ~doc[f]]

\* C15: a toggle flips only its own flag (is_special for toggle-special,
\* available for toggle-available) of the addressed item and leaves every
\* other field and item as they were; the value it returns is the value
\* stored after the call; and when a second call of the same toggle on the
\* same item starts in the state that the first one left, the item is back in
\* the state in which the first call found it.
C15_ToggleFlipsAndInverts ==
    [][\A q \in Procs :
         (pc[q] \in ToggleOps /\ pc'[q] = "done")
         => LET f == Flag(req[q].op)
                id == req[q].item_id
                i == FirstIndexId(menu_items, id, 1)
            IN /\ i # 0
               /\ menu_items' = [menu_items EXCEPT ![i] = Flipped(menu_items[i], f)]
               /\ resp'[q].status = 200
               /\ resp'[q].body = <<menu_items'[i][f]>>
               /\ \A p \in Procs \ {q} :
                    (/\ pc[p] = "done" /\ req[p].op = req[q].op
                     /\ req[p].item_id = id /\ resp[p].status = 200
                     /\ req[q].existing_item = <<Flipped(req[p].existing_item[1], f)>>)
                    => menu_items'[i] = req[p].existing_item[1]]_vars

\* both toggles have been called twice in a row on an item: the two responses
\* of toggle-available are held, TRUE after FALSE, another item is stored
C15_Witness ==
    \E p, q \in Procs :
        /\ p # q
        /\ pc[p] = "done" /\ pc[q] = "done"
        /\ req[p].op = "toggle_available" /\ req[q].op = "toggle_available"
        /\ req[p].item_id = req[q].item_id
        /\ resp[p].status = 200 /\ resp[q].status = 200
        /\ req[q].existing_item = <<Flipped(req[p].existing_item[1], "available")>>
        /\ resp[p].body = <<FALSE>> /\ resp[q].body = <<TRUE>>
        /\ StoredItem(menu_items, req[p].item_id) = req[p].existing_item[1]
        /\ Len(menu_items) = 2

\* the ids that were given out and are stored no more: create hands out
\* 1, 2, ... in turn, so such an id belonged to an item that was deleted
DeletedIds ==
    {id \in 1..next_id : \A i \in 1..Len(menu_items) : menu_items[i].id # id}

\* the ids in a listing
IdsOf(listing) == {listing[i].id : i \in 1..Len(listing)}

ItemListOps == {"get_menu", "get_specials", "get_all_menu_items"}

\* C16: delete on a stored id removes that document and no other; from then
\* on the id is in none of the three listings (neither in what the store
\* holds for them nor in a response), and update, toggle-special,
\* toggle-available and delete on it answer 404.
C16_DeleteRemovesOne ==
    /\ [](\A id \in DeletedIds :
            /\ id \notin IdsOf(find_available(menu_items))
            /\ id \notin IdsOf(find_specials(menu_items))
            /\ \A p \in Procs :
                 (pc[p] = "done" /\ req[p].op \in ItemListOps /\ resp[p].status = 200)
                 => id \notin IdsOf(resp[p].body))
    /\ [][\A p \in Procs :
            /\ (/\ Starts(p, {"delete_menu_item"})
                /\ FirstIndexId(menu_items, req'[p].item_id, 1) # 0)
               => (/\ resp'[p].status = 200
                   /\ menu_items' =
                        RemoveAt(menu_items, FirstIndexId(menu_items, req'[p].item_id, 1))
                   /\ req'[p].item_id \in DeletedIds')
            /\ (Starts(p, ById) /\ req'[p].item_id \in DeletedIds)
               => (/\ pc'[p] = "done"
                   /\ resp'[p].status = 404
                   /\ menu_items' = menu_items)]_vars

\* the first of two items was deleted, the other is still stored, and a
\* toggle on the deleted id was answered 404
C16_Witness ==
    \E p \in Procs :
        /\ pc[p] = "done" /\ req[p].op = "toggle_available"
        /\ req[p].item_id \in DeletedIds
        /\ resp[p].status = 404
        /\ IdsOf(menu_items) = {2}

\* what list-all returns for a collection
ListAll(coll) == AsMenuItems(to_list(coll, ListLimit))

C18_PublicListings ==
    [][\A p \in Procs :
         /\ Starts(p, {"get_menu"})
            => (/\ resp'[p].status = 200
                /\ resp'[p].body = AsMenuItems(find_available(menu_items)))
         /\ Starts(p, {"get_specials"})
            => (/\ resp'[p].status = 200
                /\ resp'[p].body = AsMenuItems(find_specials(menu_items))
                /\ IdsOf(resp'[p].body)
                     \subseteq IdsOf(to_list(find_available(menu_items), ListLimit))
                /\ \A i \in 1..Len(resp'[p].body) : resp'[p].body[i].available = TRUE)]_vars

\* C19 as stated: list-all with a valid administrator token returns every
\* item of the menu collection, available or not, however many are stored.
C19_ListAllComplete ==
    [][\A p \in Procs :
         (Starts(p, {"get_all_menu_items"}) /\ req'[p].credentials = issued.token)
         => (/\ resp'[p].status = 200
             /\ resp'[p].body = AsMenuItems(menu_items))]_vars

\* C20: list-categories answers the categories in ascending order, none of
\* them twice, and they are exactly the categories of the stored items,
\* whether available or not; so a category of which no item is left (the last
\* one deleted or moved to another category) is not in the answer.
C20_Categories ==
    [][\A p \in Procs :
         Starts(p, {"get_categories"})
         => LET body == resp'[p].body
            IN /\ resp'[p].status = 200
               /\ menu_items' = menu_items
               /\ \A i, j \in 1..Len(body) : i < j => Rank(body[i]) < Rank(body[j])
               /\ {body[i] : i \in 1..Len(body)}
                    = {menu_items[k].category : k \in 1..Len(menu_items)}]_vars

\* two categories were listed in ascending order, not the order of storage,
\* the first of them carried by an unavailable item only
C20_Witness ==
    \E p \in Procs :
        /\ pc[p] = "done" /\ req[p].op = "get_categories"
        /\ Len(menu_items) = 2
        /\ menu_items[1].category = "Lassi"
        /\ menu_items[2].category = "" /\ menu_items[2].available = FALSE
        /\ resp[p].body = <<"", "Lassi">>

\* C21: no two stored menu items have the same id (there are as many ids as
\* stored items); no step of seeding,
\* create, update, toggle-special or toggle-available changes the id or the
\* created_at of a stored item; and create gives the new item an id that no
\* stored item has, whatever id the payload names.
C21_IdsUniqueAndFixed ==
    /\ [](Cardinality(IdsOf(menu_items)) = Len(menu_items))
    /\ [][/\ Len(menu_items') >= Len(menu_items)
          /\ \A i \in 1..Len(menu_items) :
               /\ menu_items'[i].id = menu_items[i].id
               /\ menu_items'[i].created_at = menu_items[i].created_at
          /\ \A p \in Procs :
               Starts(p, {"create_menu_item"})
               => (/\ resp'[p].status = 200
                   /\ Len(menu_items') = Len(menu_items) + 1
                   /\ menu_items'[Len(menu_items')].id = next_id'
                   /\ resp'[p].body[1].id = next_id'
                   /\ next_id' \notin IdsOf(menu_items)
                   /\ next_id' \notin 1..next_id)]_vars

\* the catalog was seeded, its first item was then updated at a later clock
\* reading, and an item was created with a payload that names that item's id
C21_Witness ==
    \E p \in Procs :
        /\ pc[p] = "done" /\ req[p].op = "create_menu_item"
        /\ req[p].item.id = SeedId(1)
        /\ resp[p].status = 200
        /\ Len(menu_items) = Len(menu_data) + 1
        /\ menu_items[1].id = SeedId(1)
        /\ menu_items[1].name = ""
        /\ fromisoformat(menu_items[1].created_at) < now

\* C23: the startup hook inserts only when it counted no document in the menu
\* collection: it then inserts the catalog, item by item, and leaves 114
\* items in 15 categories, each with an id of its own, available = true,
\* is_special = false and created_at read at startup; when it counted at
\* least one document it ends at once and the collection stays as it was.
C23_SeedOnlyWhenEmpty ==
    /\ [](\A p \in Procs :
            pc[p] = "preload_insert_one"
            => (/\ Len(menu_items) = req[p].i - 1
                /\ \A k \in 1..Len(menu_items) :
                     menu_items[k] = Created(menu_data[k], SeedId(k), now)))
    /\ [][\A p \in Procs :
            /\ (pc[p] = "preload" /\ pc'[p] # "preload")
               => (/\ menu_items' = menu_items
                   /\ pc'[p] = IF menu_items = <<>> THEN "preload_insert_one" ELSE "idle")
            /\ (pc[p] = "preload_insert_one" /\ pc'[p] = "idle")
               => (/\ Len(menu_items') = 114
                   /\ Cardinality(distinct(menu_items', "category")) = 15
                   /\ Cardinality(IdsOf(menu_items')) = 114
                   /\ \A k \in 1..114 :
                        /\ menu_items'[k].available = TRUE
                        /\ menu_items'[k].is_special = FALSE
                        /\ menu_items'[k].category = menu_data[k].category
                        /\ menu_items'[k].name = menu_data[k].name
                        /\ menu_items'[k].price = menu_data[k].price
                        /\ menu_items'[k].created_at = isoformat(now))]_vars

\* the hook has just ended on a store that it found empty
C23_Witness ==
    /\ \A p \in Procs : pc[p] = "idle"
    /\ ticks = 0
    /\ Len(menu_items) = Len(menu_data)
    /\ menu_items[Len(menu_items)].id = SeedId(Len(menu_data))
    /\ menu_items[Len(menu_items)].category = "Add Ons"

\* C22: with requests served one after the other, the send_otp that stores its
\* challenge and whose message the provider does not accept answers 500
\* "Failed to send OTP email" with the challenge it stored as the only one of
\* the administrator (the one before it deleted, none taken back), no token;
\* and the next send_otp deletes that challenge and stores its own.
C22_FailedDispatchKeepsChallenge ==
    [][\A p \in Procs :
        /\ (pc[p] = "send_insert_one" /\ pc'[p] # pc[p])
           => /\ pc'[p] = "done"
              /\ AdminDocs' = <<req[p].otp_doc>>
              /\ mail' # [to |-> req[p].email, otp |-> req[p].otp]
                 => resp'[p].status = 500
              /\ resp'[p].status # 200
                 => /\ resp'[p].status = 500
                    /\ resp'[p].detail = "Failed to send OTP email"
                    /\ resp'[p].token = NoToken
                    /\ mail' = mail
                    /\ issued' = issued
        /\ (Starts(p, {"send_otp"}) /\ req'[p].email = ADMIN_EMAIL)
           => /\ pc'[p] = "send_insert_one"
              /\ AdminDocs' = <<>>
              /\ req'[p].replaced = IF AdminDocs = <<>> THEN "" ELSE AdminDocs[1].otp]_vars

\* no message was ever accepted: a send_otp failed, the next one replaced its
\* challenge by one with another code, and failed as well
C22_Witness ==
    \E p \in Procs :
        /\ pc[p] = "done" /\ req[p].op = "send_otp" /\ resp[p].status = 500
        /\ mail = NoMail
        /\ last.replaced \notin {"", req[p].otp}
        /\ Len(AdminDocs) = 1 /\ AdminDocs[1].otp = req[p].otp

\* C24: every stored challenge, and every challenge a send_otp is about to
\* store, has expires_at equal to its created_at plus 10 minutes.
C24_ExpiresTenMinutesAfterCreated ==
    /\ \A i \in 1..Len(otp_verifications) :
         fromisoformat(otp_verifications[i].expires_at)
           = fromisoformat(otp_verifications[i].created_at) + OtpTtl
    /\ \A p \in Procs :
         pc[p] = "send_insert_one"
         => fromisoformat(req[p].otp_doc.expires_at)
              = fromisoformat(req[p].otp_doc.created_at) + OtpTtl

\* C25: a stored challenge yields at most one token: no verify_otp issues a
\* token for a code that a verify_otp has already been given a token for when
\* no challenge has been stored since and none is stored, also when the two
\* requests both ran find_one before either ran delete_one.
C25_OneTokenPerChallenge ==
    [][\A p \in Procs :
        (/\ pc[p] = "verify_delete_one" /\ pc'[p] = "done"
         /\ resp'[p].token # NoToken)
        => ~(/\ last.kind = "verified" /\ last.otp = req[p].otp
             /\ AdminDocs = <<>>)]_vars

\* C26: when the last challenge stored is that of a send_otp that has returned,
\* a verify_otp for the administrator with another code than the code of that
\* send_otp finds no match, also when that send_otp ran its delete_many before
\* an earlier-returning send_otp ran its insert_one.
C26_NoStaleCode ==
    [][\A p \in Procs :
        (/\ Starts(p, {"verify_otp"}) /\ req'[p].email = ADMIN_EMAIL
         /\ last.kind = "sent"
         /\ req'[p].otp # last.otp)
        => pc'[p] # "verify_delete_one"]_vars

\* C27: a token leaves the service only in the last step of a verify_otp for
\* the administrator email, answered 200, and a verify_otp reaches that step
\* only from a find_one that returned a challenge whose expires_at the clock
\* has not passed and whose code is the submitted one; a send_otp and a
\* verify_otp answered 403, 404 or 400 carry no token and issue none.
C27_TokenOnlyFromMatch ==
    [][\A p \in Procs :
        /\ (resp'[p].token # NoToken /\ resp'[p] # resp[p])
           => /\ pc[p] = "verify_delete_one" /\ pc'[p] = "done"
              /\ req[p].op = "verify_otp" /\ req[p].email = ADMIN_EMAIL
              /\ resp'[p].status = 200
              /\ resp'[p].token = create_jwt_token(ADMIN_EMAIL, now)
              /\ issued'.token = resp'[p].token
        /\ (pc'[p] = "verify_delete_one" /\ pc[p] # pc'[p])
           => /\ Starts(p, {"verify_otp"}) /\ req'[p].email = ADMIN_EMAIL
              /\ Stored # <<>>
              /\ now <= fromisoformat(Stored[1].expires_at)
              /\ Stored[1].otp = req'[p].otp
        /\ issued' # issued
           => \E q \in Procs : pc[q] = "verify_delete_one" /\ pc'[q] = "done"
        /\ (pc'[p] = "done" /\ pc[p] # "done"
            /\ (req'[p].op # "verify_otp" \/ resp'[p].status # 200))
           => (resp'[p].token = NoToken /\ issued' = issued)]_vars

\* a verify_otp with the stored code has its token, and the verify_otp that
\* came next with that code was answered 404 without one
C27_Witness ==
    \E p \in Procs :
        /\ pc[p] = "done" /\ req[p].op = "verify_otp" /\ req[p].email = ADMIN_EMAIL
        /\ resp[p].status = 404 /\ resp[p].token = NoToken
        /\ issued.token = create_jwt_token(ADMIN_EMAIL, issued.at)
        /\ last.kind = "verified" /\ mail.otp = last.otp

\* C28 as stated: the token issued last is accepted by an admin route at any
\* time before its issue time plus 7 days, whatever the login routes have done
\* since.
C28_Original ==
    [][\A p \in Procs :
        (/\ Starts(p, AdminOps)
         /\ issued.token # NoToken
         /\ req'[p].credentials = issued.token
         /\ now < issued.at + JwtTtl)
        => resp'[p].status = 200]_vars

\* C28 (amended): a token is issued with "exp" at the whole second of its
\* issue time plus 7 days, and an admin route started with a token a client
\* holds is let through at any time before that "exp", whatever challenges are
\* stored and whichever token was issued last; the step reads and writes no
\* challenge and no token.
C28_NoRevocation ==
    [][\A p \in Procs :
        /\ (pc[p] = "verify_delete_one" /\ pc'[p] = "done")
           => /\ resp'[p].token.kind = "jwt"
              /\ resp'[p].token.exp * TicksPerSec = FloorSec(now) + JwtTtl
        /\ (/\ Starts(p, AdminOps)
            /\ req'[p].credentials \in HeldTokens
            /\ now < req'[p].credentials.exp * TicksPerSec)
           => /\ pc'[p] = "done"
              /\ resp'[p].status = 200
              /\ otp_verifications' = otp_verifications
              /\ issued' = issued]_vars

\* a token went through after a later login had stored a new challenge, had
\* consumed it and had issued another token
C28_Witness ==
    \E p \in Procs :
        /\ pc[p] = "done" /\ req[p].op \in AdminOps
        /\ req[p].credentials.kind = "jwt"
        /\ issued.token.kind = "jwt"
        /\ req[p].credentials # issued.token
        /\ req[p].credentials.exp < issued.token.exp
        /\ last.kind = "verified"
        /\ resp[p].status = 200

\* C29: an update request of the administrator that has ended was answered
\* 200 or 404, also when a delete of its item ran between its find_one, its
\* update_one and its second find_one.
C29_UpdateEndsUpdatedOrNotFound ==
    \A p \in Procs :
        (pc[p] = "done" /\ req[p].op = "update_menu_item")
        => resp[p].status \in {200, 404}

\* C30: every toggle that completes inverts the stored flag of its item and
\* returns the value it stored, so that two toggles of one kind on one item
\* leave the flag as it was, also when both ran find_one before either ran
\* update_one.
C30_NoLostToggle ==
    [][\A q \in Procs :
         (pc[q] \in ToggleOps /\ pc'[q] = "done")
         => LET f == Flag(req[q].op)
                i == FirstIndexId(menu_items, req[q].item_id, 1)
            IN /\ i # 0
               /\ menu_items'[i][f] = ~menu_items[i][f]
               /\ resp'[q].body = <<menu_items'[i][f]>>]_vars

ReadOps == {"get_menu", "get_categories", "get_specials", "get_all_menu_items"}

MenuWriteOps == AdminOps \ ReadOps

\* the route that handler p is serving in this step, "none" if p does not move
Stepping(p) ==
    IF pc'[p] = pc[p] THEN "none"
    ELSE IF pc[p] = "idle" THEN req'[p].op
    ELSE req[p].op

\* C31: a step of send_otp or verify_otp leaves the menu collection as it was,
\* a step of a menu route leaves the OTP collection as it was, a step of
\* list-available, list-categories, list-specials or list-all leaves both as
\* they were; so the OTP collection changes only in a step of a login route
\* and the menu collection only in a step of create, update, delete or a
\* toggle.
C31_OwnCollectionOnly ==
    [][/\ \A p \in Procs :
            /\ Stepping(p) \in LoginOps => menu_items' = menu_items
            /\ Stepping(p) \in AdminOps \cup ReadOps
               => otp_verifications' = otp_verifications
            /\ Stepping(p) \in ReadOps
               => (menu_items' = menu_items /\ otp_verifications' = otp_verifications)
       /\ otp_verifications' # otp_verifications
            => \E p \in Procs : Stepping(p) \in LoginOps
       /\ menu_items' # menu_items
            => \E p \in Procs : Stepping(p) \in MenuWriteOps]_vars

\* list-available was answered with the one item that is left available of
\* the two stored, while a send_otp stands between its delete_many and its
\* insert_one
C31_Witness ==
    \E p, q \in Procs :
        /\ pc[p] = "send_insert_one"
        /\ otp_verifications = <<>>
        /\ pc[q] = "done" /\ req[q].op = "get_menu" /\ resp[q].status = 200
        /\ Len(menu_items) = 2
        /\ Len(resp[q].body) = 1

====
